---------------------------- MODULE Spec2Model ----------------------------
(***************************************************************************)
(* A model of the project indexer of claude-task-viewer (project.go):      *)
(* the catalog of projects read from <claudeDir>/projects, the grouping of *)
(* projects under a base repository, the live task counts and the active   *)
(* task lists read from <claudeDir>/tasks; of the Start and Stop of       *)
(* Server and HTTPServer and the directories NewServer gives them          *)
(* (server.go, http.go, config.go); of the SSE clients and the stream      *)
(* handler; and of the window of the sessions pagination handler.          *)
(*                                                                         *)
(* Strings are sequences of one-character strings, so that prefix, suffix  *)
(* and length are computed as the Go code computes them; "" is << >>.      *)
(* Times are integers (a larger integer is a later time.Time).             *)
(***************************************************************************)
EXTENDS Integers, Sequences, FiniteSets

VARIABLES
    phase,        \* SpecBase: "input" before computeBaseRepos ran, "done" after
    summaries,    \* SpecBase: the []ProjectSummary handed to computeBaseRepos
    baseOut,      \* SpecBase: the slice after computeBaseRepos (<< >> before)
    projRoot,     \* whether os.ReadDir(projectsDir) succeeds
    projDirs,     \* the entries of projectsDir, by name
    taskRoot,     \* whether os.ReadDir(tasksDir) succeeds
    taskDirs,     \* the entries of tasksDir, by session ID
    ret,          \* the last call of the indexer and what it returned
    input,        \* the string or the configuration handed to the function under check
    srv,          \* the fields of Server and of its HTTPServer, its clients and streams
    pc            \* where each caller or handler is in its call

baseVars == <<phase, summaries, baseOut>>
fsVars == <<projRoot, projDirs, taskRoot, taskDirs>>
srvVars == <<srv, pc>>
vars == <<phase, summaries, baseOut, projRoot, projDirs, taskRoot, taskDirs, ret,
          input, srv, pc>>

---------------------------------------------------------------------------
(* Bounds of the model.                                                    *)

\* Longest list of summaries drawn for computeBaseRepos.
MaxSummaries == 3

\* Most session entries in all sessions-index.json files together.
MaxEntries == 3

\* Latest modification time of a session entry (times are 1..MaxTime).
MaxTime == 2

---------------------------------------------------------------------------
(* Strings.                                                                *)

EmptyStr == << >>
Dash == <<"-">>

\* strings.HasPrefix(s, prefix)
HasPrefix(s, prefix) ==
    /\ Len(prefix) <= Len(s)
    /\ SubSeq(s, 1, Len(prefix)) = prefix

\* strings.HasSuffix(s, suffix)
HasSuffix(s, suffix) ==
    /\ Len(suffix) <= Len(s)
    /\ SubSeq(s, Len(s) - Len(suffix) + 1, Len(s)) = suffix

Slash == <<"/">>

\* The position of the last "/" of s, 0 when there is none.
RECURSIVE LastSlash(_)
LastSlash(s) ==
    IF s = << >> THEN 0
    ELSE IF s[Len(s)] = "/" THEN Len(s)
         ELSE LastSlash(SubSeq(s, 1, Len(s) - 1))

\* s without its trailing "/"s.
RECURSIVE StripTrailingSlashes(_)
StripTrailingSlashes(s) ==
    IF s # << >> /\ s[Len(s)] = "/"
    THEN StripTrailingSlashes(SubSeq(s, 1, Len(s) - 1))
    ELSE s

\* filepath.Base(path) with "/" as the separator.
FilepathBase(path) ==
    IF path = << >> THEN <<".">>
    ELSE LET stripped == StripTrailingSlashes(path)
         IN  IF stripped = << >> THEN Slash
             ELSE SubSeq(stripped, LastSlash(stripped) + 1, Len(stripped))

\* The position of the first "/" of s, 0 when there is none.
RECURSIVE FirstSlash(_)
FirstSlash(s) ==
    IF s = << >> THEN 0
    ELSE IF Head(s) = "/" THEN 1
         ELSE LET rest == FirstSlash(Tail(s))
              IN  IF rest = 0 THEN 0 ELSE rest + 1

\* strings.Split(s, "/"): the components of s, empty ones included.
RECURSIVE SplitSlash(_)
SplitSlash(s) ==
    IF FirstSlash(s) = 0 THEN <<s>>
    ELSE <<SubSeq(s, 1, FirstSlash(s) - 1)>>
             \o SplitSlash(SubSeq(s, FirstSlash(s) + 1, Len(s)))

---------------------------------------------------------------------------
(* sort.Slice.                                                             *)

\* The permutations of 1..n, each a sequence of length n.
RECURSIVE IndexPerms(_)
IndexPerms(n) ==
    IF n = 0 THEN {<< >>}
    ELSE {SubSeq(p, 1, k - 1) \o <<n>> \o SubSeq(p, k, n - 1) :
             p \in IndexPerms(n - 1), k \in 1..n}

\* sort.Slice(s, less) where less(i, j) is key[i] > key[j] (or
\* key[i].After(key[j])): every use in project.go has this form.  keys is
\* the sequence of the elements' keys, parallel to s.  sort.Slice is not
\* stable, so the result is any permutation of s that is in non-increasing
\* order of key: the operator is the set of those.
SortSliceDesc(s, keys) ==
    {[i \in 1..Len(s) |-> s[p[i]]] :
        p \in {q \in IndexPerms(Len(s)) :
                 \A i, j \in 1..Len(s) : i < j => keys[q[i]] >= keys[q[j]]}}

---------------------------------------------------------------------------
(* computeBaseRepos.                                                       *)

\* A variant of OrgRepos: the names of every organization's projects.
OrgReposAnyOrg(sums, org) ==
    [i \in 1..Len(sums) |-> sums[i].Name]

\* The names of the summaries of organization org, in the order of the
\* slice: orgRepos[org] after the first loop.
RECURSIVE OrgRepos(_, _)
OrgRepos(sums, org) ==
    IF sums = << >> THEN << >>
    ELSE IF Head(sums).Org = org
         THEN <<Head(sums).Name>> \o OrgRepos(Tail(sums), org)
         ELSE OrgRepos(Tail(sums), org)

\* The organizations that have an entry in orgRepos.
OrgKeys(sums) ==
    {sums[i].Org : i \in {j \in 1..Len(sums) : sums[j].Org # EmptyStr}}

\* The key each org's repos are sorted by: len(name), longest first.
SortKeyLen(names) == [i \in 1..Len(names) |-> Len(names[i])]

\* The outcomes of the second loop: orgRepos with every org's names sorted
\* by length, longest first.
SortedOrgRepos(sums) ==
    {f \in [OrgKeys(sums) -> UNION {SortSliceDesc(OrgRepos(sums, o),
                                       SortKeyLen(OrgRepos(sums, o))) :
                                    o \in OrgKeys(sums)}] :
        \A o \in OrgKeys(sums) :
            f[o] \in SortSliceDesc(OrgRepos(sums, o),
                                   SortKeyLen(OrgRepos(sums, o)))}

\* Whether the inner loop stops at candidate for the project called name.
IsWorktreeOf(name, candidate) ==
    /\ candidate # name
    /\ HasPrefix(name, candidate \o Dash)

\* The inner loop: the first candidate of repos that name is a worktree of,
\* and name itself when there is none.
RECURSIVE FindBaseRepo(_, _)
FindBaseRepo(name, repos) ==
    IF repos = << >> THEN name
    ELSE IF IsWorktreeOf(name, Head(repos)) THEN Head(repos)
         ELSE FindBaseRepo(name, Tail(repos))

\* The third loop, given the sorted orgRepos.
AssignBaseRepos(sums, orgRepos) ==
    [i \in 1..Len(sums) |->
        IF sums[i].Org = EmptyStr
        THEN [sums[i] EXCEPT !.BaseRepo = sums[i].Name]
        ELSE [sums[i] EXCEPT
                 !.BaseRepo = FindBaseRepo(sums[i].Name, orgRepos[sums[i].Org])]]

\* A variant of ScanOrder: the second loop (the sort) left out.
UnsortedOrgRepos(sums) ==
    {[o \in OrgKeys(sums) |-> OrgRepos(sums, o)]}

\* orgRepos as the third loop reads it.
ScanOrder(sums) == SortedOrgRepos(sums)

\* computeBaseRepos(summaries): the slices it can leave behind.
computeBaseRepos(sums) ==
    {AssignBaseRepos(sums, orgRepos) : orgRepos \in ScanOrder(sums)}

---------------------------------------------------------------------------
(* The inputs of computeBaseRepos.                                         *)

\* Organizations: none, and two real ones.
OrgO == <<"o">>
OrgP == <<"p">>
Orgs == {EmptyStr, OrgO, OrgP}

\* Project names: a base, a base followed by a bare "-", a name that has
\* the base as a prefix without a separator, and a chain of worktrees.
NameA == <<"a">>
NameADash == <<"a", "-">>
NameAB == <<"a", "b">>
NameA_B == <<"a", "-", "b">>
NameA_B_C == <<"a", "-", "b", "-", "c">>
NamePool == {NameA, NameADash, NameAB, NameA_B, NameA_B_C}

\* The names of the example in computeBaseRepos's comment.
NameRepo == <<"r", "e", "p", "o">>
NameRepoClient == <<"r", "e", "p", "o", "-", "c", "l", "i", "e", "n", "t">>
NameRepoClientWt == <<"r", "e", "p", "o", "-", "c", "l", "i", "e", "n", "t", "-", "w", "t">>
NameOther == <<"o", "t", "h", "e", "r">>
ExampleNames == {NameRepo, NameRepoClient, NameRepoClientWt, NameOther}

Summary(org, name) == [Org |-> org, Name |-> name, BaseRepo |-> EmptyStr]

\* All sequences over S of length at most n.
SeqsUpTo(S, n) == UNION {[1..k -> S] : k \in 0..n}

\* The example organization in every order, alone or with a project of the
\* same name as one of its members in another organization.
ExampleInputs ==
    LET four == {Summary(OrgO, n) : n \in ExampleNames}
        five == four \cup {Summary(OrgP, NameRepo)}
        Orderings(S) ==
            {q \in [1..Cardinality(S) -> S] :
                \A i, j \in 1..Cardinality(S) : i # j => q[i] # q[j]}
    IN  Orderings(four) \cup Orderings(five)

\* The summaries the lists are drawn from: every name in organization o,
\* and the base and its worktree in organization p and in no organization.
SummaryPool ==
    {Summary(OrgO, n) : n \in NamePool}
        \cup {Summary(o, n) : o \in {EmptyStr, OrgP}, n \in {NameA, NameA_B}}

BaseInputs == SeqsUpTo(SummaryPool, MaxSummaries) \cup ExampleInputs

\* SpecBase does not read the file system: it is left empty and no call of
\* the indexer is recorded.
NoFiles ==
    /\ projRoot = "unlistable"
    /\ projDirs = << >>
    /\ taskRoot = "unlistable"
    /\ taskDirs = << >>

NoCall == [op |-> "none"]

\* No string is under check and no Server was made.
NoInput == input = << >>

NoServer ==
    /\ srv = << >>
    /\ pc = << >>

InitBase ==
    /\ phase = "input"
    /\ summaries \in BaseInputs
    /\ baseOut = << >>
    /\ NoFiles
    /\ ret = NoCall
    /\ NoInput
    /\ NoServer

\* ListProjectSummaries' call computeBaseRepos(summaries).
ComputeBaseRepos ==
    /\ phase = "input"
    /\ \E out \in computeBaseRepos(summaries) : baseOut' = out
    /\ phase' = "done"
    /\ UNCHANGED <<summaries, fsVars, ret, input, srvVars>>

NextBase == ComputeBaseRepos

SpecBase == InitBase /\ [][NextBase]_vars

---------------------------------------------------------------------------
(* Claims about computeBaseRepos (SpecBase).                               *)

\* The indices of the summaries of organization org.
MembersOfOrg(sums, org) == {i \in 1..Len(sums) : sums[i].Org = org}

\* The names of the projects of organization org.
NamesOfOrg(sums, org) == {sums[i].Name : i \in MembersOfOrg(sums, org)}

\* The longest string of a non-empty set of strings of distinct lengths.
Longest(S) == CHOOSE c \in S : \A d \in S : Len(d) <= Len(c)

\* C1: when one organization contains exactly the projects repo,
\* repo-client, repo-client-wt and other, computeBaseRepos assigns
\* repo-client-wt the base repo-client, and repo-client, repo and other
\* each their own name.
C1_ExampleBaseRepos ==
    phase = "done" =>
        \A o \in Orgs \ {EmptyStr} :
            NamesOfOrg(summaries, o) = ExampleNames =>
                \A i \in MembersOfOrg(baseOut, o) :
                    baseOut[i].BaseRepo =
                        IF baseOut[i].Name = NameRepoClientWt
                        THEN NameRepoClient
                        ELSE baseOut[i].Name

\* The names of the other projects of project i's organization that i's
\* name starts with, followed by "-".
MatchingBases(sums, i) ==
    {sums[j].Name : j \in {k \in MembersOfOrg(sums, sums[i].Org) :
                              /\ k # i
                              /\ HasPrefix(sums[i].Name, sums[k].Name \o Dash)}}

Permuted(sums, p) == [i \in 1..Len(sums) |-> sums[p[i]]]

\* C3: the BaseRepo of each project depends only on the (organization,
\* name) pairs: for every permutation of the input list every run of
\* computeBaseRepos assigns each project the BaseRepo it got here, and two
\* entries with the same organization and name get the same BaseRepo.
C3_OrderIndependent ==
    phase = "done" =>
        /\ \A p \in IndexPerms(Len(summaries)) :
              \A other \in computeBaseRepos(Permuted(summaries, p)) :
                  \A i \in 1..Len(summaries) :
                      other[i].BaseRepo = baseOut[p[i]].BaseRepo
        /\ \A i, j \in 1..Len(baseOut) :
              (baseOut[i].Org = baseOut[j].Org /\ baseOut[i].Name = baseOut[j].Name)
                  => baseOut[i].BaseRepo = baseOut[j].BaseRepo

\* A chain listed shortest first, so that the input order and the scan
\* order differ: a, a-b, a-b-c of one organization, a-b-c based on a-b.
C3_Witness ==
    /\ phase = "done"
    /\ Len(summaries) = 3
    /\ \A i \in 1..3 : summaries[i].Org = OrgO
    /\ summaries[1].Name = NameA
    /\ summaries[2].Name = NameA_B
    /\ summaries[3].Name = NameA_B_C
    /\ baseOut[3].BaseRepo = NameA_B

---------------------------------------------------------------------------
(* The project catalog: extractProjectInfo, loadProject, ListProjects,     *)
(* GetProject.                                                             *)

GithubCom == <<"g", "i", "t", "h", "u", "b", ".", "c", "o", "m">>

\* A variant of OrgFromParts: the loop has no break, so that the last
\* "github.com" that has a part after it decides.
RECURSIVE OrgFromPartsNoBreak(_, _)
OrgFromPartsNoBreak(parts, i) ==
    IF i > Len(parts) THEN EmptyStr
    ELSE IF \E j \in (i + 1)..(Len(parts) - 1) : parts[j] = GithubCom
         THEN OrgFromPartsNoBreak(parts, i + 1)
         ELSE IF parts[i] = GithubCom /\ i + 1 <= Len(parts) THEN parts[i + 1]
              ELSE OrgFromPartsNoBreak(parts, i + 1)

\* The loop of extractProjectInfo over parts, from index i on: the part
\* after the first "github.com" that has a part after it.
RECURSIVE OrgFromParts(_, _)
OrgFromParts(parts, i) ==
    IF i > Len(parts) THEN EmptyStr
    ELSE IF parts[i] = GithubCom /\ i + 1 <= Len(parts) THEN parts[i + 1]
         ELSE OrgFromParts(parts, i + 1)

\* extractProjectInfo(path)
extractProjectInfo(path) ==
    LET name == FilepathBase(path)
    IN  IF name = EmptyStr \/ name = <<".">>
        THEN [name |-> EmptyStr, shortname |-> EmptyStr, org |-> EmptyStr]
        ELSE [name |-> name, shortname |-> name,
              org |-> OrgFromParts(SplitSlash(path), 1)]

\* A variant of ParseError: a file that does not parse reads as missing.
ParseErrorAsMissing(state) == IF state = "malformed" THEN "NotExist" ELSE "nil"

\* The error of json.Unmarshal(data, &idx) for an index file in state.
ParseError(state) == IF state = "malformed" THEN "Syntax" ELSE "nil"

\* What os.ReadFile(<projectsDir>/<dirName>/sessions-index.json) and
\* json.Unmarshal make of the entry called dirName: an error, or the
\* entries of the index.  i is the entry's place in projDirs.
\*   "NotExist"  the directory or the file is missing (ENOENT)
\*   "NotDir"    the entry is a regular file (ENOTDIR)
\*   "Syntax"    the file is there and json.Unmarshal fails
ReadIndex(i) ==
    CASE projDirs[i].kind = "absent" -> [err |-> "NotExist", entries |-> << >>]
      [] projDirs[i].kind = "file" -> [err |-> "NotDir", entries |-> << >>]
      [] projDirs[i].index = "missing" -> [err |-> "NotExist", entries |-> << >>]
      [] ParseError(projDirs[i].index) # "nil" ->
            [err |-> ParseError(projDirs[i].index), entries |-> << >>]
      [] OTHER -> [err |-> "nil", entries |-> projDirs[i].entries]

NoProject ==
    [Path |-> EmptyStr, Name |-> EmptyStr, Shortname |-> EmptyStr,
     Org |-> EmptyStr, DirName |-> EmptyStr, Sessions |-> << >>,
     SessionCount |-> 0, LastModified |-> 0]

\* A variant of SortKeyModified: the entries are left in file order.
SortKeyNone(entries) == [i \in 1..Len(entries) |-> 0]

\* The key loadProject sorts the entries by: Modified, latest first.
SortKeyModified(entries) == [i \in 1..Len(entries) |-> entries[i].Modified]

\* A variant of ProjectOf: the path of the first entry of the file.
ProjectOfFileOrder(dirName, sorted, unsortedEntries) ==
    LET info == extractProjectInfo(unsortedEntries[1].ProjectPath)
    IN  [Path |-> unsortedEntries[1].ProjectPath,
         Name |-> IF info.name = EmptyStr THEN dirName ELSE info.name,
         Shortname |-> info.shortname,
         Org |-> info.org,
         DirName |-> dirName,
         Sessions |-> sorted,
         SessionCount |-> Len(sorted),
         LastModified |-> sorted[1].Modified]

\* The Project loadProject builds from the sorted entries.
ProjectOf(dirName, sorted, unsortedEntries) ==
    LET info == extractProjectInfo(sorted[1].ProjectPath)
    IN  [Path |-> sorted[1].ProjectPath,
         Name |-> IF info.name = EmptyStr THEN dirName ELSE info.name,
         Shortname |-> info.shortname,
         Org |-> info.org,
         DirName |-> dirName,
         Sessions |-> sorted,
         SessionCount |-> Len(sorted),
         LastModified |-> sorted[1].Modified]

\* A variant of EmptyIndexError: the test is len(idx.Entries) <= 1.
EmptyIndexErrorOffByOne(n) == IF n <= 1 THEN "NotExist" ELSE "nil"

\* The error loadProject returns for an index that parsed into n entries.
EmptyIndexError(n) == IF n = 0 THEN "NotExist" ELSE "nil"

\* loadProject(dirName) for the i-th entry of projectsDir: the (Project,
\* error) pairs it can return.
loadProject(i) ==
    LET read == ReadIndex(i)
    IN  IF read.err # "nil"
        THEN {[err |-> read.err, val |-> NoProject]}
        ELSE IF EmptyIndexError(Len(read.entries)) # "nil"
        THEN {[err |-> EmptyIndexError(Len(read.entries)), val |-> NoProject]}
        ELSE {[err |-> "nil",
               val |-> ProjectOf(projDirs[i].name, sorted, read.entries)] :
                 sorted \in SortSliceDesc(read.entries,
                                          SortKeyModified(read.entries))}

\* The loop of ListProjects over entries i..: the slices of projects it
\* can collect, in listing order.
RECURSIVE CollectProjects(_)
CollectProjects(i) ==
    IF i > Len(projDirs) THEN {<< >>}
    ELSE IF projDirs[i].kind # "dir" THEN CollectProjects(i + 1)
    ELSE UNION {IF r.err # "nil" THEN CollectProjects(i + 1)
                ELSE {<<r.val>> \o rest : rest \in CollectProjects(i + 1)} :
                   r \in loadProject(i)}

\* The key ListProjects sorts the projects by: LastModified, latest first.
SortKeyLastModified(projects) ==
    [i \in 1..Len(projects) |-> projects[i].LastModified]

\* ListProjects(): the ([]Project, error) pairs it can return.
ListProjects ==
    IF projRoot # "listable"
    THEN {[err |-> "ReadDir", val |-> << >>]}
    ELSE {[err |-> "nil", val |-> sorted] :
            sorted \in UNION {SortSliceDesc(ps, SortKeyLastModified(ps)) :
                                ps \in CollectProjects(1)}}

\* GetProject(dirName) for the i-th entry of projectsDir.
GetProject(i) == loadProject(i)

---------------------------------------------------------------------------
(* ListProjectSummaries and ListProjectGroups.                             *)

\* The ProjectSummary ListProjectSummaries makes of a Project, before
\* computeBaseRepos.  LastBranch and LastSummary, copied from the first
\* session, are left out: the entries of the model carry neither.
SummaryOf(p) ==
    [Name |-> p.Name, Path |-> p.Path, DirName |-> p.DirName,
     Shortname |-> p.Shortname, Org |-> p.Org, BaseRepo |-> EmptyStr,
     SessionCount |-> p.SessionCount, LastModified |-> p.LastModified]

\* ListProjectSummaries(): the ([]ProjectSummary, error) pairs it can return.
ListProjectSummaries ==
    UNION {IF r.err # "nil" THEN {[err |-> r.err, val |-> << >>]}
           ELSE {[err |-> "nil", val |-> sums] :
                   sums \in computeBaseRepos(
                       [i \in 1..Len(r.val) |-> SummaryOf(r.val[i])])} :
              r \in ListProjects}

\* A variant of GroupKey: the group is keyed by the base repo alone.
GroupKeyBaseOnly(s) == s.BaseRepo

\* key := s.Org + "/" + s.BaseRepo
GroupKey(s) == s.Org \o Slash \o s.BaseRepo

\* The group's LastModified after a member joined.
LaterOf(groupTime, memberTime) ==
    IF memberTime > groupTime THEN memberTime ELSE groupTime

\* groupMap after the first n summaries went through the first loop of
\* ListProjectGroups.
RECURSIVE GroupMapAfter(_, _)
GroupMapAfter(sums, n) ==
    IF n = 0 THEN [k \in {} |-> 0]
    ELSE LET m == GroupMapAfter(sums, n - 1)
             sm == sums[n]
             key == GroupKey(sm)
         IN  IF key \in DOMAIN m
             THEN [m EXCEPT ![key] =
                     [@ EXCEPT !.Projects = Append(@, sm),
                               !.TotalSessions = @ + sm.SessionCount,
                               !.LastModified = LaterOf(@, sm.LastModified)]]
             ELSE [k \in DOMAIN m \cup {key} |->
                     IF k = key
                     THEN [BaseRepo |-> sm.BaseRepo, Org |-> sm.Org,
                           Projects |-> <<sm>>,
                           TotalSessions |-> sm.SessionCount,
                           LastModified |-> sm.LastModified]
                     ELSE m[k]]

\* The key the members of a group are sorted by: LastModified, latest first.
SortKeyMembers(members) ==
    [i \in 1..Len(members) |-> members[i].LastModified]

\* A variant of SortKeyGroups: the groups are left in the order the map
\* was visited in.
SortKeyGroupsNone(groups) == [i \in 1..Len(groups) |-> 0]

\* The key the groups are sorted by: LastModified, latest first.
SortKeyGroups(groups) == [i \in 1..Len(groups) |-> groups[i].LastModified]

\* The orders in which a range over a map with key set S can visit it: Go
\* leaves the order unspecified, so every order is one.
RECURSIVE MapIterationOrders(_)
MapIterationOrders(S) ==
    IF S = {} THEN {<< >>}
    ELSE UNION {{<<k>> \o rest : rest \in MapIterationOrders(S \ {k})} : k \in S}

\* The second loop of ListProjectGroups over the keys order[i..]: each
\* group with its projects sorted by LastModified, in the order visited.
RECURSIVE GroupsInOrder(_, _, _)
GroupsInOrder(m, order, i) ==
    IF i > Len(order) THEN {<< >>}
    ELSE {<<[m[order[i]] EXCEPT !.Projects = sorted]>> \o rest :
             sorted \in SortSliceDesc(m[order[i]].Projects,
                                      SortKeyMembers(m[order[i]].Projects)),
             rest \in GroupsInOrder(m, order, i + 1)}

\* The groups ListProjectGroups can return for the summaries sums.
GroupsOf(sums) ==
    LET m == GroupMapAfter(sums, Len(sums))
    IN  UNION {SortSliceDesc(groups, SortKeyGroups(groups)) :
                 groups \in UNION {GroupsInOrder(m, order, 1) :
                                     order \in MapIterationOrders(DOMAIN m)}}

\* ListProjectGroups(): the ([]ProjectGroup, error) pairs it can return.
ListProjectGroups ==
    UNION {IF r.err # "nil" THEN {[err |-> r.err, val |-> << >>]}
           ELSE {[err |-> "nil", val |-> groups] : groups \in GroupsOf(r.val)} :
              r \in ListProjectSummaries}

---------------------------------------------------------------------------
(* The projects directory the catalog is read from.                        *)

\* The entries of projectsDir in the order os.ReadDir lists them (sorted
\* by name), each with the project path its sessions were recorded under
\* and a second path some of its sessions carry instead.
DirOA == <<"-", "g", "i", "t", "h", "u", "b", "-", "c", "o", "m", "-", "o", "-", "a">>
DirOAB == <<"-", "g", "i", "t", "h", "u", "b", "-", "c", "o", "m", "-", "o", "-", "a", "-", "b">>
DirWA == <<"-", "w", "-", "a">>
DirNames == <<DirOA, DirOAB, DirWA>>

PathOA == <<"/", "g", "i", "t", "h", "u", "b", ".", "c", "o", "m", "/", "o", "/", "a">>
PathOAB == <<"/", "g", "i", "t", "h", "u", "b", ".", "c", "o", "m", "/", "o", "/", "a", "-", "b">>
PathWA == <<"/", "w", "/", "a">>
PathVA == <<"/", "v", "/", "a">>
\* The paths the sessions of each directory were recorded under: the
\* first directory was moved (a second path, outside any organization),
\* the third holds sessions without a recorded path.
DirPaths == <<{PathOA, PathVA}, {PathOAB}, {PathWA, EmptyStr}>>

\* What each name can be when it holds no session: missing, or (the first
\* and the third) a regular file, a directory without index, with an index
\* that does not parse, or with an index without entries.
Absent(i) ==
    [name |-> DirNames[i], kind |-> "absent", index |-> "missing", entries |-> << >>]

DirWithoutSessions(i) ==
    IF DirNames[i] = DirOAB THEN {Absent(i)}
    ELSE {Absent(i), [Absent(i) EXCEPT !.kind = "file"]}
         \cup {[Absent(i) EXCEPT !.kind = "dir", !.index = x] :
                 x \in {"missing", "malformed", "ok"}}

SessionS == <<"s", "1">>
Times == 1..MaxTime

\* The session entries the index of the i-th directory can hold.
EntriesOf(i) ==
    [SessionID : {SessionS}, Modified : Times, ProjectPath : DirPaths[i]]

\* What the i-th name can be in projectsDir when its index holds n entries.
DirStates(i, n) ==
    IF n = 0 THEN DirWithoutSessions(i)
    ELSE {[name |-> DirNames[i], kind |-> "dir", index |-> "ok", entries |-> e] :
             e \in [1..n -> EntriesOf(i)]}

\* The file systems Spec starts from: a projects directory that can be
\* listed, with at most MaxEntries session entries in its three names; or
\* one that cannot, with at most one.
InitProjects ==
    \E n1, n2, n3 \in 0..MaxEntries :
        /\ n1 + n2 + n3 <= MaxEntries
        /\ \E d1 \in DirStates(1, n1), d2 \in DirStates(2, n2),
              d3 \in DirStates(3, n3) :
                projDirs = <<d1, d2, d3>>
        /\ \/ projRoot = "listable"
           \/ /\ n1 + n2 + n3 <= 1
              /\ projRoot = "unlistable"

NoBaseRun ==
    /\ phase = "none"
    /\ summaries = << >>
    /\ baseOut = << >>

NoTasks ==
    /\ taskRoot = "unlistable"
    /\ taskDirs = << >>

Init ==
    /\ NoBaseRun
    /\ InitProjects
    /\ NoTasks
    /\ ret = NoCall
    /\ NoInput
    /\ NoServer

Returned(op, arg, r) == [op |-> op, arg |-> arg, err |-> r.err, val |-> r.val]

CallListProjects ==
    /\ ret = NoCall
    /\ \E r \in ListProjects : ret' = Returned("ListProjects", 0, r)
    /\ UNCHANGED <<baseVars, fsVars, input, srvVars>>

CallGetProject ==
    /\ ret = NoCall
    /\ \E i \in 1..Len(projDirs) :
          \E r \in GetProject(i) : ret' = Returned("GetProject", i, r)
    /\ UNCHANGED <<baseVars, fsVars, input, srvVars>>

CallListProjectGroups ==
    /\ ret = NoCall
    /\ \E r \in ListProjectGroups : ret' = Returned("ListProjectGroups", 0, r)
    /\ UNCHANGED <<baseVars, fsVars, input, srvVars>>

\* The caller is done with what the call returned.
Discard ==
    /\ ret # NoCall
    /\ ret' = NoCall
    /\ UNCHANGED <<baseVars, fsVars, input, srvVars>>

Next ==
    \/ CallListProjects
    \/ CallGetProject
    \/ CallListProjectGroups
    \/ Discard

Spec == Init /\ [][Next]_vars

---------------------------------------------------------------------------
(* Claims about the catalog and the groups (Spec).                         *)

\* The entries of projectsDir that are directories whose index is there,
\* parses and holds at least one entry.
ValidDirs ==
    {i \in 1..Len(projDirs) :
        /\ projDirs[i].kind = "dir"
        /\ projDirs[i].index = "ok"
        /\ projDirs[i].entries # << >>}

\* The DirNames of the projects ListProjects returns.
ListedDirNames ==
    UNION {{r.val[k].DirName : k \in 1..Len(r.val)} : r \in ListProjects}

\* s is in non-increasing order of the integers key[1], key[2], ...
NonIncreasing(key) ==
    \A i \in 1..Len(key) - 1 : key[i] >= key[i + 1]

\* The largest of a non-empty set of integers.
Maximum(S) == CHOOSE x \in S : \A y \in S : y <= x

\* The sum of f[1], ..., f[n].
RECURSIVE SumTo(_, _)
SumTo(f, n) == IF n = 0 THEN 0 ELSE f[n] + SumTo(f, n - 1)

GroupsReturned == ret.op = "ListProjectGroups" /\ ret.err = "nil"

\* The places (group, position) of the result where the project of
\* directory d is listed.
PlacesOf(d) ==
    {<<g, k>> \in (1..Len(ret.val)) \X (1..Len(projDirs)) :
        /\ k <= Len(ret.val[g].Projects)
        /\ ret.val[g].Projects[k].DirName = d}

\* C4: in the result of ListProjectGroups every project ListProjects
\* returns is listed in exactly one group, once; every member of a group is
\* one of those projects; and the members of a group have the group's Org
\* and BaseRepo.
C4_ExactlyOneGroup ==
    GroupsReturned =>
        /\ \A d \in ListedDirNames : Cardinality(PlacesOf(d)) = 1
        /\ \A g \in 1..Len(ret.val) :
              \A k \in 1..Len(ret.val[g].Projects) :
                  /\ ret.val[g].Projects[k].DirName \in ListedDirNames
                  /\ ret.val[g].Projects[k].Org = ret.val[g].Org
                  /\ ret.val[g].Projects[k].BaseRepo = ret.val[g].BaseRepo

\* Three projects in two groups: a base and its worktree in one group,
\* and a project of the same name outside any organization in another.
C4_Witness ==
    /\ GroupsReturned
    /\ Len(ret.val) = 2
    /\ Cardinality(ListedDirNames) = 3
    /\ \E g, h \in 1..2 :
          /\ Len(ret.val[g].Projects) = 2
          /\ ret.val[g].Org = OrgO
          /\ ret.val[h].Org = EmptyStr
          /\ ret.val[h].BaseRepo = ret.val[g].BaseRepo

\* C5: ListProjectGroups returns the groups in non-increasing order of
\* LastModified; a group's LastModified is the maximum of its members'
\* LastModified and its TotalSessions the sum of their SessionCount; the
\* members of a group are in non-increasing order of LastModified.
C5_GroupOrderAndTotals ==
    GroupsReturned =>
        /\ NonIncreasing([g \in 1..Len(ret.val) |-> ret.val[g].LastModified])
        /\ \A g \in 1..Len(ret.val) :
              LET members == ret.val[g].Projects
              IN  /\ members # << >>
                  /\ ret.val[g].LastModified =
                        Maximum({members[k].LastModified : k \in 1..Len(members)})
                  /\ ret.val[g].TotalSessions =
                        SumTo([k \in 1..Len(members) |-> members[k].SessionCount],
                              Len(members))
                  /\ NonIncreasing([k \in 1..Len(members) |->
                                       members[k].LastModified])

\* Two groups of different age, the first with two members of different
\* age that the directory lists the older first.
C5_Witness ==
    /\ GroupsReturned
    /\ Len(ret.val) = 2
    /\ ret.val[1].LastModified > ret.val[2].LastModified
    /\ ret.val[1].TotalSessions = 2
    /\ Len(ret.val[1].Projects) = 2
    /\ ret.val[1].Projects[1].DirName = DirOAB
    /\ ret.val[1].Projects[2].DirName = DirOA
    /\ ret.val[1].Projects[1].LastModified > ret.val[1].Projects[2].LastModified

ProjectsReturned == ret.op = "ListProjects" /\ ret.err = "nil"

\* C6: ListProjects returns an error exactly when the projects directory
\* cannot be listed; otherwise it returns exactly one Project for each
\* subdirectory whose index exists, parses and holds an entry, and nothing
\* for any other entry, so that no returned Project has zero sessions.
C6_ListProjectsSkipsInvalid ==
    ret.op = "ListProjects" =>
        /\ ret.err # "nil" <=> projRoot # "listable"
        /\ ret.err = "nil" =>
              /\ \A i \in ValidDirs :
                    Cardinality({k \in 1..Len(ret.val) :
                                   ret.val[k].DirName = projDirs[i].name}) = 1
              /\ \A k \in 1..Len(ret.val) :
                    /\ \E i \in ValidDirs : ret.val[k].DirName = projDirs[i].name
                    /\ ret.val[k].SessionCount >= 1
                    /\ Len(ret.val[k].Sessions) >= 1

\* A listing whose first entry is a directory with an index that does not
\* parse and whose last entry is a regular file: the one between is
\* returned.
C6_Witness ==
    /\ ProjectsReturned
    /\ Len(ret.val) = 1
    /\ projDirs[1].index = "malformed"
    /\ projDirs[3].kind = "file"
    /\ ret.val[1].DirName = DirOAB

ModifiedOf(sessions) == [k \in 1..Len(sessions) |-> sessions[k].Modified]

\* C7: the Sessions of every Project returned by ListProjects or
\* GetProject are in non-increasing order of Modified, and the Projects
\* ListProjects returns are in non-increasing order of LastModified; an
\* index that holds a, then the later b, loads as b, a.
C7_SortedByRecency ==
    /\ ProjectsReturned =>
          /\ NonIncreasing([k \in 1..Len(ret.val) |-> ret.val[k].LastModified])
          /\ \A k \in 1..Len(ret.val) :
                NonIncreasing(ModifiedOf(ret.val[k].Sessions))
    /\ (ret.op = "GetProject" /\ ret.err = "nil") =>
          /\ NonIncreasing(ModifiedOf(ret.val.Sessions))
          /\ LET file == projDirs[ret.arg].entries
             IN  (Len(file) = 2 /\ file[1].Modified < file[2].Modified)
                    => ret.val.Sessions = <<file[2], file[1]>>

\* GetProject of an index that holds an entry and then a later one.
C7_Witness ==
    /\ ret.op = "GetProject"
    /\ ret.err = "nil"
    /\ Len(projDirs[ret.arg].entries) = 2
    /\ projDirs[ret.arg].entries[1].Modified < projDirs[ret.arg].entries[2].Modified
    /\ ret.val.Sessions[1] = projDirs[ret.arg].entries[2]

\* What C8 says of the Project p.
LatestSessionFields(p) ==
    LET latest == Maximum({p.Sessions[k].Modified : k \in 1..Len(p.Sessions)})
    IN  /\ p.LastModified = latest
        /\ p.SessionCount = Len(p.Sessions)
        /\ \E k \in 1..Len(p.Sessions) :
              /\ p.Sessions[k].Modified = latest
              /\ p.Sessions[k].ProjectPath = p.Path

\* C8: of every loaded Project, LastModified is the latest Modified of its
\* sessions, SessionCount the number of its sessions (the entries of its
\* index), and Path the ProjectPath of a session modified at that time.
C8_LatestSession ==
    /\ ProjectsReturned =>
          \A k \in 1..Len(ret.val) :
              /\ LatestSessionFields(ret.val[k])
              /\ \E i \in 1..Len(projDirs) :
                    /\ projDirs[i].name = ret.val[k].DirName
                    /\ ret.val[k].SessionCount = Len(projDirs[i].entries)
    /\ (ret.op = "GetProject" /\ ret.err = "nil") =>
          /\ LatestSessionFields(ret.val)
          /\ ret.val.SessionCount = Len(projDirs[ret.arg].entries)

\* A project whose latest session is the second of the file and carries
\* another path than the first.
C8_Witness ==
    /\ ret.op = "GetProject"
    /\ ret.err = "nil"
    /\ Len(projDirs[ret.arg].entries) = 2
    /\ projDirs[ret.arg].entries[1].Modified < projDirs[ret.arg].entries[2].Modified
    /\ projDirs[ret.arg].entries[1].ProjectPath = PathOA
    /\ ret.val.Path = PathVA
    /\ ret.val.LastModified = MaxTime

---------------------------------------------------------------------------
(* The live tasks directory and GetTaskCount (SpecTasks).                  *)

\* Most entries in one session's directory of tasksDir.
MaxTaskFiles == 2

DotJson == <<".", "j", "s", "o", "n">>

\* A variant of IsTaskFile: every entry counts.
IsAnyFile(name) == TRUE

\* The test of GetTaskCount's loop: strings.HasSuffix(e.Name(), ".json").
IsTaskFile(name) == HasSuffix(name, DotJson)

\* The loop of GetTaskCount over the entries of the directory.
RECURSIVE CountTaskFiles(_)
CountTaskFiles(entries) ==
    IF entries = {} THEN 0
    ELSE LET e == CHOOSE x \in entries : TRUE
         IN  (IF IsTaskFile(e) THEN 1 ELSE 0) + CountTaskFiles(entries \ {e})

\* os.ReadDir(<tasksDir>/<sessionID>) for the i-th name of tasksDir: it
\* fails when the name is missing, is a regular file, or is a directory
\* that cannot be read.
ReadTaskDir(i) ==
    IF taskDirs[i].kind = "dir"
    THEN [err |-> "nil", entries |-> taskDirs[i].files]
    ELSE [err |-> "ReadDir", entries |-> {}]

\* GetTaskCount(sessionID) for the i-th name of tasksDir.
GetTaskCount(i) ==
    LET read == ReadTaskDir(i)
    IN  IF read.err # "nil" THEN 0 ELSE CountTaskFiles(read.entries)

\* The sessions that can have a directory in tasksDir, in listing order.
SessionA == <<"s", "a">>
SessionB == <<"s", "b">>
TaskSessions == <<SessionA, SessionB>>

\* The names a session's directory can hold: task files, the lock file, a
\* log file, a file called just ".json" and one called "json".
TaskFileNames ==
    {<<"1", ".", "j", "s", "o", "n">>,
     <<"2", ".", "j", "s", "o", "n">>,
     <<".", "l", "o", "c", "k">>,
     <<"1", ".", "j", "s", "o", "n", "l">>,
     DotJson,
     <<"j", "s", "o", "n">>}

\* What the i-th session can be in tasksDir.
TaskDirStates(i) ==
    {[name |-> TaskSessions[i], kind |-> k, files |-> {}] :
        k \in {"absent", "file", "unreadable"}}
    \cup {[name |-> TaskSessions[i], kind |-> "dir", files |-> f] :
            f \in {g \in SUBSET TaskFileNames : Cardinality(g) <= MaxTaskFiles}}

NoProjects ==
    /\ projRoot = "unlistable"
    /\ projDirs = << >>

InitTasks ==
    /\ NoBaseRun
    /\ NoProjects
    /\ taskRoot \in {"listable", "unlistable"}
    /\ \E t1 \in TaskDirStates(1), t2 \in TaskDirStates(2) : taskDirs = <<t1, t2>>
    /\ ret = NoCall
    /\ NoInput
    /\ NoServer

CallGetTaskCount ==
    /\ ret = NoCall
    /\ \E i \in 1..Len(taskDirs) :
          ret' = [op |-> "GetTaskCount", arg |-> i, err |-> "nil",
                  val |-> GetTaskCount(i)]
    /\ UNCHANGED <<baseVars, fsVars, input, srvVars>>

NextTasks ==
    \/ CallGetTaskCount
    \/ Discard

SpecTasks == InitTasks /\ [][NextTasks]_vars

---------------------------------------------------------------------------
(* Claims about GetTaskCount (SpecTasks).                                  *)

\* name ends in the five characters ".json".
EndsInDotJson(name) ==
    /\ Len(name) >= 5
    /\ name[Len(name) - 4] = "."
    /\ name[Len(name) - 3] = "j"
    /\ name[Len(name) - 2] = "s"
    /\ name[Len(name) - 1] = "o"
    /\ name[Len(name)] = "n"

\* C10: GetTaskCount(session) returns the number of entries of the
\* session's directory in tasksDir whose name ends in ".json", and returns
\* 0 and no error when that directory does not exist or cannot be read.
C10_TaskCount ==
    ret.op = "GetTaskCount" =>
        /\ ret.err = "nil"
        /\ taskDirs[ret.arg].kind = "dir" =>
              ret.val = Cardinality({f \in taskDirs[ret.arg].files :
                                        EndsInDotJson(f)})
        /\ taskDirs[ret.arg].kind # "dir" => ret.val = 0

\* A directory that holds a task file and the lock file: one task.
C10_Witness ==
    /\ ret.op = "GetTaskCount"
    /\ taskDirs[ret.arg].kind = "dir"
    /\ Cardinality(taskDirs[ret.arg].files) = 2
    /\ \E f \in taskDirs[ret.arg].files : ~EndsInDotJson(f)
    /\ ret.val = 1

---------------------------------------------------------------------------
(* extractProjectInfo and extractProjectName on their own (SpecNames).     *)

\* Most components of a path drawn for extractProjectInfo.
MaxParts == 4

\* Longest directory name drawn for extractProjectName.
MaxDirLen == 4

\* strings.Split(s, sep) for a one-character sep: the parts of s, empty
\* ones included.
RECURSIVE SplitOn(_, _)
SplitOn(s, sep) ==
    IF \A k \in 1..Len(s) : s[k] # sep THEN <<s>>
    ELSE LET at == CHOOSE k \in 1..Len(s) :
                       /\ s[k] = sep
                       /\ \A j \in 1..(k - 1) : s[j] # sep
         IN  <<SubSeq(s, 1, at - 1)>> \o SplitOn(SubSeq(s, at + 1, Len(s)), sep)

\* A variant of LastNonEmptyPart: the scan runs from the first part.
RECURSIVE FirstNonEmptyPart(_, _, _)
FirstNonEmptyPart(parts, i, dirName) ==
    IF i = 0 THEN dirName
    ELSE LET k == Len(parts) - i + 1
         IN  IF parts[k] # EmptyStr THEN parts[k]
             ELSE FirstNonEmptyPart(parts, i - 1, dirName)

\* The loop of extractProjectName from index i down: the last part that is
\* not empty, and dirName when the loop runs out.
RECURSIVE LastNonEmptyPart(_, _, _)
LastNonEmptyPart(parts, i, dirName) ==
    IF i = 0 THEN dirName
    ELSE IF parts[i] # EmptyStr THEN parts[i]
         ELSE LastNonEmptyPart(parts, i - 1, dirName)

\* extractProjectName(dirName)
extractProjectName(dirName) ==
    LET parts == SplitOn(dirName, "-")
    IN  LastNonEmptyPart(parts, Len(parts), dirName)

\* parts joined by "/".
RECURSIVE JoinSlash(_)
JoinSlash(parts) ==
    IF parts = << >> THEN EmptyStr
    ELSE IF Len(parts) = 1 THEN parts[1]
         ELSE parts[1] \o Slash \o JoinSlash(Tail(parts))

\* The path of extractProjectInfo's comment, shortened.
PartHome == <<"h", "o", "m", "e">>
PartOrg1 == <<"o", "r", "g", "1">>
PartRepoX == <<"r", "e", "p", "o", "X">>
ExamplePath == JoinSlash(<<EmptyStr, PartHome, GithubCom, PartOrg1, PartRepoX>>)

\* The components paths are made of: none (a doubled, leading or trailing
\* separator), a name, ".", and "github.com".
PathParts == {EmptyStr, <<"a">>, <<".">>, GithubCom}

\* Paths: up to MaxParts components joined by "/", and the example.
PathInputs ==
    {JoinSlash(parts) : parts \in SeqsUpTo(PathParts, MaxParts)}
        \cup {ExamplePath}

\* Directory names: every string of "-", "a" and "b" up to MaxDirLen, and
\* the names of the projects directory.
DirNameInputs ==
    SeqsUpTo({"-", "a", "b"}, MaxDirLen) \cup {DirOA, DirOAB, DirWA}

InitNames ==
    /\ NoBaseRun
    /\ NoFiles
    /\ ret = NoCall
    /\ input \in PathInputs \cup DirNameInputs
    /\ NoServer

\* name, shortname, org := extractProjectInfo(input)
ExtractProjectInfo ==
    /\ ret = NoCall
    /\ ret' = [op |-> "extractProjectInfo", arg |-> input,
               val |-> extractProjectInfo(input)]
    /\ UNCHANGED <<baseVars, fsVars, input, srvVars>>

\* projectName := extractProjectName(input)
ExtractProjectName ==
    /\ ret = NoCall
    /\ ret' = [op |-> "extractProjectName", arg |-> input,
               val |-> extractProjectName(input)]
    /\ UNCHANGED <<baseVars, fsVars, input, srvVars>>

NextNames ==
    \/ ExtractProjectInfo
    \/ ExtractProjectName
    \/ Discard

SpecNames == InitNames /\ [][NextNames]_vars

---------------------------------------------------------------------------
(* Claims about extractProjectInfo and extractProjectName (SpecNames).     *)

\* The positions around the components of s: before its first character,
\* after its last, and each position that holds sep.
Cuts(s, sep) == {0, Len(s) + 1} \cup {k \in 1..Len(s) : s[k] = sep}

\* The n-th cut of s, counted from the left.
NthCut(s, sep, n) ==
    CHOOSE c \in Cuts(s, sep) :
        Cardinality({d \in Cuts(s, sep) : d < c}) = n - 1

\* The number of components of s, and the n-th of them.
NumComponents(s, sep) == Cardinality(Cuts(s, sep)) - 1
ComponentAt(s, sep, n) ==
    SubSeq(s, NthCut(s, sep, n) + 1, NthCut(s, sep, n + 1) - 1)

\* The last component of s that is not empty, when there is one.
HasFinalComponent(s, sep) == \E k \in 1..Len(s) : s[k] # sep
FinalComponent(s, sep) ==
    ComponentAt(s, sep,
        CHOOSE n \in 1..NumComponents(s, sep) :
            /\ ComponentAt(s, sep, n) # EmptyStr
            /\ \A m \in (n + 1)..NumComponents(s, sep) :
                  ComponentAt(s, sep, m) = EmptyStr)

\* The places of the components "github.com" of path that have a
\* component after them.
GithubPlaces(path) ==
    {n \in 1..(NumComponents(path, "/") - 1) :
        ComponentAt(path, "/", n) = GithubCom}

\* The component after the first of them, "" when there is none.
OrgOfPath(path) ==
    IF GithubPlaces(path) = {} THEN EmptyStr
    ELSE ComponentAt(path, "/",
             1 + CHOOSE n \in GithubPlaces(path) :
                     \A m \in GithubPlaces(path) : n <= m)

InfoReturned == ret.op = "extractProjectInfo"

\* What C11 says of the path handed to extractProjectInfo.
NameAndOrgOfPath ==
    /\ ret.val.name = FinalComponent(input, "/")
    /\ ret.val.shortname = FinalComponent(input, "/")
    /\ ret.val.org = OrgOfPath(input)

\* C11 as stated: for every path with a final component,
\* extractProjectInfo returns name = shortname = that component and org =
\* the component after the first "github.com" that has one after it, ""
\* when there is none.
C11_InfoOfEveryPath ==
    (InfoReturned /\ HasFinalComponent(input, "/")) => NameAndOrgOfPath

\* C11, amended: the same for every path whose final component is not
\* "."; for a path whose final component is "." extractProjectInfo returns
\* the empty name, shortname and org.
C11_InfoOfPath ==
    (InfoReturned /\ HasFinalComponent(input, "/")) =>
        IF FinalComponent(input, "/") = <<".">>
        THEN ret.val = [name |-> EmptyStr, shortname |-> EmptyStr,
                        org |-> EmptyStr]
        ELSE NameAndOrgOfPath

\* The example path: name = shortname = repoX and org = org1.
C11_Witness ==
    /\ InfoReturned
    /\ input = ExamplePath
    /\ ret.val.name = PartRepoX
    /\ ret.val.shortname = PartRepoX
    /\ ret.val.org = PartOrg1

\* C13: extractProjectName(dirName) returns the last component of dirName
\* split on "-" that is not empty, and dirName itself when every component
\* is empty; the result holds no "-" unless it is that fallback.
C13_LastNonEmptyComponent ==
    ret.op = "extractProjectName" =>
        /\ HasFinalComponent(input, "-") => ret.val = FinalComponent(input, "-")
        /\ ~HasFinalComponent(input, "-") => ret.val = input
        /\ (\E k \in 1..Len(ret.val) : ret.val[k] = "-")
              => (ret.val = input /\ ~HasFinalComponent(input, "-"))

\* A name with two components and a trailing "-": the second is returned.
C13_Witness ==
    /\ ret.op = "extractProjectName"
    /\ input = <<"a", "-", "b", "-">>
    /\ ret.val = <<"b">>

---------------------------------------------------------------------------
(* loadProject over the paths of extractProjectInfo (SpecLoad).            *)

\* A projects directory with one project, whose index holds one session
\* recorded under any of the paths.
InitLoad ==
    /\ NoBaseRun
    /\ projRoot = "listable"
    /\ \E path \in PathInputs :
          projDirs = <<[name |-> DirWA, kind |-> "dir", index |-> "ok",
                        entries |-> <<[SessionID |-> SessionS, Modified |-> 1,
                                       ProjectPath |-> path]>>]>>
    /\ NoTasks
    /\ ret = NoCall
    /\ NoInput
    /\ NoServer

NextLoad ==
    \/ CallGetProject
    \/ Discard

SpecLoad == InitLoad /\ [][NextLoad]_vars

\* C12: for a path with no final component, the empty path and the root
\* path "/" alike, extractProjectInfo returns the empty name, shortname and
\* org, and the Project loadProject builds is named after its directory.
C12_NoFinalComponent ==
    (ret.op = "GetProject" /\ ret.err = "nil"
        /\ ret.val.Path \in {EmptyStr, Slash}) =>
            /\ extractProjectInfo(ret.val.Path) =
                  [name |-> EmptyStr, shortname |-> EmptyStr, org |-> EmptyStr]
            /\ ret.val.Name = ret.val.DirName
            /\ ret.val.Shortname = EmptyStr
            /\ ret.val.Org = EmptyStr

---------------------------------------------------------------------------
(* ListActiveTaskLists, buildSessionProjectMap, findProjectByJSONL.        *)

\* projectInfo{}: the zero value.
NoProjectInfo ==
    [name |-> EmptyStr, path |-> EmptyStr, summary |-> EmptyStr,
     firstPrompt |-> EmptyStr]

\* The inner loop of buildSessionProjectMap: result after the first k
\* entries of the index of directory dirName were stored in m.
RECURSIVE StoreEntries(_, _, _, _)
StoreEntries(m, dirName, entries, k) ==
    IF k = 0 THEN m
    ELSE LET before == StoreEntries(m, dirName, entries, k - 1)
             info == [name |-> extractProjectName(dirName),
                      path |-> dirName,
                      summary |-> entries[k].Summary,
                      firstPrompt |-> entries[k].FirstPrompt]
         IN  [id \in DOMAIN before \cup {entries[k].SessionID} |->
                 IF id = entries[k].SessionID THEN info ELSE before[id]]

\* The outer loop of buildSessionProjectMap: result after the first i
\* entries of projectsDir.  Entries that are not directories and indexes
\* that cannot be read or parsed are passed over.
RECURSIVE SessionMapAfter(_)
SessionMapAfter(i) ==
    IF i = 0 THEN [id \in {} |-> NoProjectInfo]
    ELSE LET before == SessionMapAfter(i - 1)
         IN  IF projDirs[i].kind # "dir" THEN before
             ELSE IF ReadIndex(i).err # "nil" THEN before
             ELSE StoreEntries(before, projDirs[i].name, ReadIndex(i).entries,
                               Len(ReadIndex(i).entries))

\* buildSessionProjectMap()
buildSessionProjectMap ==
    IF projRoot # "listable" THEN [id \in {} |-> NoProjectInfo]
    ELSE SessionMapAfter(Len(projDirs))

\* A variant of HoldsLog: the result of os.Stat is not looked at.
HoldsLogUnchecked(i, sessionID) == TRUE

\* Whether os.Stat(<projectsDir>/<dir>/<sessionID>.jsonl) succeeds for the
\* i-th entry of projectsDir.
HoldsLog(i, sessionID) == sessionID \in projDirs[i].logs

\* The loop of findProjectByJSONL from the i-th entry of projectsDir on.
RECURSIVE FindLogFrom(_, _)
FindLogFrom(i, sessionID) ==
    IF i > Len(projDirs) THEN [info |-> NoProjectInfo, ok |-> FALSE]
    ELSE IF projDirs[i].kind = "dir" /\ HoldsLog(i, sessionID)
         THEN [info |-> [NoProjectInfo EXCEPT
                            !.name = extractProjectName(projDirs[i].name),
                            !.path = projDirs[i].name],
               ok |-> TRUE]
         ELSE FindLogFrom(i + 1, sessionID)

\* findProjectByJSONL(sessionID)
findProjectByJSONL(sessionID) ==
    IF projRoot # "listable" THEN [info |-> NoProjectInfo, ok |-> FALSE]
    ELSE FindLogFrom(1, sessionID)

\* A variant of ProjectFor: the log file is probed before the map is
\* looked at.
ProjectForLogFirst(sessionID, sessionToProject) ==
    IF findProjectByJSONL(sessionID).ok
    THEN findProjectByJSONL(sessionID).info
    ELSE IF sessionID \in DOMAIN sessionToProject
         THEN sessionToProject[sessionID]
         ELSE NoProjectInfo

\* The project context ListActiveTaskLists gives the list of sessionID:
\* the map's, else the log file's, else none.
ProjectFor(sessionID, sessionToProject) ==
    IF sessionID \in DOMAIN sessionToProject
    THEN sessionToProject[sessionID]
    ELSE IF findProjectByJSONL(sessionID).ok
         THEN findProjectByJSONL(sessionID).info
         ELSE NoProjectInfo

\* A variant of HasLiveTasks: a session without task files counts too.
HasLiveTasksOrNone(taskCount) == taskCount >= 0

\* if taskCount > 0
HasLiveTasks(taskCount) == taskCount > 0

\* The ActiveTaskList of the j-th entry of tasksDir.  TaskDir, the session
\* ID joined to tasksDir, is left out.
ActiveTaskListOf(j, sessionToProject) ==
    LET proj == ProjectFor(taskDirs[j].name, sessionToProject)
    IN  [SessionID |-> taskDirs[j].name,
         TaskCount |-> GetTaskCount(j),
         ProjectName |-> proj.name,
         ProjectPath |-> proj.path,
         Summary |-> proj.summary,
         FirstPrompt |-> proj.firstPrompt]

\* The loop of ListActiveTaskLists from the j-th entry of tasksDir on.  A
\* missing name is not listed; a regular file is not a directory.
RECURSIVE ActiveListsFrom(_, _)
ActiveListsFrom(j, sessionToProject) ==
    IF j > Len(taskDirs) THEN << >>
    ELSE IF taskDirs[j].kind \in {"absent", "file"}
         THEN ActiveListsFrom(j + 1, sessionToProject)
         ELSE IF HasLiveTasks(GetTaskCount(j))
              THEN <<ActiveTaskListOf(j, sessionToProject)>>
                       \o ActiveListsFrom(j + 1, sessionToProject)
              ELSE ActiveListsFrom(j + 1, sessionToProject)

\* A variant of ReadTasksDirError: the error of listing projectsDir is
\* returned as well.
ReadEitherDirError ==
    IF taskRoot = "listable" /\ projRoot = "listable" THEN "nil" ELSE "ReadDir"

\* The error of os.ReadDir(pi.tasksDir).
ReadTasksDirError == IF taskRoot = "listable" THEN "nil" ELSE "ReadDir"

\* ListActiveTaskLists()
ListActiveTaskLists ==
    IF ReadTasksDirError # "nil"
    THEN [err |-> ReadTasksDirError, val |-> << >>]
    ELSE [err |-> "nil", val |-> ActiveListsFrom(1, buildSessionProjectMap)]

---------------------------------------------------------------------------
(* The two directories ListActiveTaskLists reads (SpecActive).             *)

\* Most session entries in the two indexes together.
MaxIndexed == 2

\* The entries of projectsDir, in listing order: extractProjectName makes
\* "b" of the first and "a" of the second.
ActiveDirNames == <<DirOAB, DirWA>>

\* The summary and the first prompt of the k-th entry of the i-th index:
\* each entry carries texts of its own.
Digits == <<"1", "2", "3", "4", "5">>
SummaryText(i, k) == <<"s", Digits[i], Digits[k]>>
PromptText(i, k) == <<"p", Digits[i], Digits[k]>>

\* The indexes of n entries the i-th directory can hold: each entry is of
\* one of the two sessions.
ActiveEntries(i, n) ==
    {[k \in 1..n |-> [SessionID |-> ids[k], Summary |-> SummaryText(i, k),
                      FirstPrompt |-> PromptText(i, k)]] :
        ids \in [1..n -> {SessionA, SessionB}]}

\* The log files a project directory can hold: none, or <SessionA>.jsonl.
LogSets == {{}, {SessionA}}

\* What the i-th name can be in projectsDir when its index holds n entries.
ActiveDirStates(i, n) ==
    LET none == [name |-> ActiveDirNames[i], kind |-> "absent",
                 index |-> "missing", entries |-> << >>, logs |-> {}]
    IN  IF n = 0
        THEN {none, [none EXCEPT !.kind = "file"]}
             \cup {[none EXCEPT !.kind = "dir", !.index = x, !.logs = l] :
                     x \in {"missing", "malformed", "ok"}, l \in LogSets}
        ELSE {[none EXCEPT !.kind = "dir", !.index = "ok", !.entries = e,
                           !.logs = l] :
                 e \in ActiveEntries(i, n), l \in LogSets}

\* The names a session's directory of tasksDir holds here.
ActiveTaskFiles ==
    {<<"1", ".", "j", "s", "o", "n">>,
     <<"2", ".", "j", "s", "o", "n">>,
     <<".", "l", "o", "c", "k">>}

\* What the j-th session can be in tasksDir when its directory holds n
\* files.
ActiveTaskStates(j, n) ==
    IF n = 0
    THEN {[name |-> TaskSessions[j], kind |-> k, files |-> {}] :
             k \in {"absent", "file", "unreadable", "dir"}}
    ELSE {[name |-> TaskSessions[j], kind |-> "dir", files |-> f] :
             f \in {g \in SUBSET ActiveTaskFiles : Cardinality(g) = n}}

\* The file systems SpecActive starts from: at most MaxIndexed session
\* entries and MaxTaskFiles task files, fewer when a root cannot be listed.
InitActive ==
    /\ NoBaseRun
    /\ \E n1, n2 \in 0..MaxIndexed :
          /\ n1 + n2 <= MaxIndexed
          /\ \E d1 \in ActiveDirStates(1, n1), d2 \in ActiveDirStates(2, n2) :
                projDirs = <<d1, d2>>
          /\ \/ projRoot = "listable"
             \/ /\ n1 + n2 <= 1
                /\ projRoot = "unlistable"
    /\ \E m1, m2 \in 0..MaxTaskFiles :
          /\ m1 + m2 <= MaxTaskFiles
          /\ \E t1 \in ActiveTaskStates(1, m1), t2 \in ActiveTaskStates(2, m2) :
                taskDirs = <<t1, t2>>
          /\ \/ taskRoot = "listable"
             \/ /\ m1 + m2 <= 1
                /\ taskRoot = "unlistable"
    /\ ret = NoCall
    /\ NoInput
    /\ NoServer

CallListActiveTaskLists ==
    /\ ret = NoCall
    /\ ret' = Returned("ListActiveTaskLists", 0, ListActiveTaskLists)
    /\ UNCHANGED <<baseVars, fsVars, input, srvVars>>

NextActive ==
    \/ CallListActiveTaskLists
    \/ Discard

SpecActive == InitActive /\ [][NextActive]_vars

---------------------------------------------------------------------------
(* Claims about ListActiveTaskLists (SpecActive).                          *)

ActiveReturned == ret.op = "ListActiveTaskLists" /\ ret.err = "nil"

\* The task files of the j-th session: the names ending in ".json" in its
\* directory, when it is a directory that can be read.
LiveTaskFiles(j) ==
    IF taskDirs[j].kind = "dir"
    THEN {f \in taskDirs[j].files : EndsInDotJson(f)}
    ELSE {}

\* The places of the result that are about session id.
EntriesAbout(id) == {k \in 1..Len(ret.val) : ret.val[k].SessionID = id}

\* C14: ListActiveTaskLists returns exactly one entry for each
\* subdirectory of tasksDir that holds at least one ".json" file and none
\* for any other session; the TaskCount of an entry is at least 1 and is
\* the GetTaskCount of its session.
C14_OneEntryPerLiveSession ==
    ActiveReturned =>
        /\ \A j \in 1..Len(taskDirs) :
              Cardinality(EntriesAbout(taskDirs[j].name)) =
                  IF LiveTaskFiles(j) # {} THEN 1 ELSE 0
        /\ \A k \in 1..Len(ret.val) :
              \E j \in 1..Len(taskDirs) :
                  /\ taskDirs[j].name = ret.val[k].SessionID
                  /\ ret.val[k].TaskCount >= 1
                  /\ ret.val[k].TaskCount = Cardinality(LiveTaskFiles(j))
                  /\ ret.val[k].TaskCount = GetTaskCount(j)

\* One session with a task file and the lock file, the other with a
\* directory that cannot be read.
C14_Witness ==
    /\ ActiveReturned
    /\ Len(ret.val) = 1
    /\ ret.val[1].TaskCount = 1
    /\ \E j, h \in 1..Len(taskDirs) :
          /\ taskDirs[j].name = ret.val[1].SessionID
          /\ Cardinality(taskDirs[j].files) = 2
          /\ taskDirs[h].kind = "unreadable"

\* The project directories whose index can be read, parses and holds an
\* entry of session id; and those that hold its log file.
IndexedIn(id) ==
    {i \in 1..Len(projDirs) :
        /\ projRoot = "listable"
        /\ projDirs[i].kind = "dir"
        /\ projDirs[i].index = "ok"
        /\ \E k \in 1..Len(projDirs[i].entries) :
              projDirs[i].entries[k].SessionID = id}
LoggedIn(id) ==
    {i \in 1..Len(projDirs) :
        /\ projRoot = "listable"
        /\ projDirs[i].kind = "dir"
        /\ id \in projDirs[i].logs}

\* The context of result entry a is that of an index entry of session id.
FromIndexEntry(a, id) ==
    \E i \in IndexedIn(id) :
        \E k \in 1..Len(projDirs[i].entries) :
            /\ projDirs[i].entries[k].SessionID = id
            /\ a.ProjectPath = projDirs[i].name
            /\ a.ProjectName = FinalComponent(projDirs[i].name, "-")
            /\ a.Summary = projDirs[i].entries[k].Summary
            /\ a.FirstPrompt = projDirs[i].entries[k].FirstPrompt

\* The context of result entry a is that of the first directory, in
\* listing order, that holds the log file of session id.
FromFirstLog(a, id) ==
    LET first == CHOOSE i \in LoggedIn(id) : \A h \in LoggedIn(id) : i <= h
    IN  /\ a.ProjectPath = projDirs[first].name
        /\ a.ProjectName = FinalComponent(projDirs[first].name, "-")
        /\ a.Summary = EmptyStr
        /\ a.FirstPrompt = EmptyStr

BlankContext(a) ==
    /\ a.ProjectName = EmptyStr
    /\ a.ProjectPath = EmptyStr
    /\ a.Summary = EmptyStr
    /\ a.FirstPrompt = EmptyStr

\* C15: the project context of an active task list comes from an index
\* entry of its session when any index holds one, also when the session's
\* log file lies in another project directory; only when no index holds the
\* session it comes from the first directory, in listing order, that holds
\* the log file, with summary and first prompt blank.
C15_IndexBeforeLog ==
    ActiveReturned =>
        \A k \in 1..Len(ret.val) :
            LET id == ret.val[k].SessionID
            IN  /\ IndexedIn(id) # {} => FromIndexEntry(ret.val[k], id)
                /\ (IndexedIn(id) = {} /\ LoggedIn(id) # {})
                      => FromFirstLog(ret.val[k], id)

\* A session indexed in the second directory whose log file lies in the
\* first only: the context is the second directory's.
C15_Witness ==
    /\ ActiveReturned
    /\ \E k \in 1..Len(ret.val) :
          /\ ret.val[k].SessionID = SessionA
          /\ IndexedIn(SessionA) = {2}
          /\ LoggedIn(SessionA) = {1}
          /\ ret.val[k].ProjectPath = DirWA
          /\ ret.val[k].Summary # EmptyStr

\* C16: a session with a live task file that no index holds and whose log
\* file no project directory holds is in the result all the same, with its
\* SessionID and TaskCount set and ProjectName, ProjectPath, Summary and
\* FirstPrompt empty.
C16_UnknownSessionListed ==
    ActiveReturned =>
        \A j \in 1..Len(taskDirs) :
            (/\ LiveTaskFiles(j) # {}
             /\ IndexedIn(taskDirs[j].name) = {}
             /\ LoggedIn(taskDirs[j].name) = {})
                => \E k \in 1..Len(ret.val) :
                      /\ ret.val[k].SessionID = taskDirs[j].name
                      /\ ret.val[k].TaskCount = Cardinality(LiveTaskFiles(j))
                      /\ BlankContext(ret.val[k])

\* A session known to no project, listed next to project directories that
\* hold the other session.
C16_Witness ==
    /\ ActiveReturned
    /\ IndexedIn(SessionA) # {}
    /\ LoggedIn(SessionA) # {}
    /\ \E k \in 1..Len(ret.val) :
          /\ ret.val[k].SessionID = SessionB
          /\ IndexedIn(SessionB) = {}
          /\ BlankContext(ret.val[k])

\* C17: ListActiveTaskLists fails exactly when tasksDir cannot be listed;
\* a projects directory that cannot be listed, or an index that is missing
\* or does not parse, leaves the call successful and every session with a
\* live task file listed, those the failure affects with blank context.
C17_OnlyTasksDirFails ==
    ret.op = "ListActiveTaskLists" =>
        /\ ret.err # "nil" <=> taskRoot # "listable"
        /\ ret.err = "nil" =>
              \A j \in 1..Len(taskDirs) :
                  LiveTaskFiles(j) # {} =>
                      \E k \in 1..Len(ret.val) :
                          /\ ret.val[k].SessionID = taskDirs[j].name
                          /\ projRoot # "listable" => BlankContext(ret.val[k])
                          /\ (\A i \in 1..Len(projDirs) :
                                 \/ projDirs[i].kind # "dir"
                                 \/ /\ projDirs[i].index # "ok"
                                    /\ taskDirs[j].name \notin projDirs[i].logs)
                                => BlankContext(ret.val[k])

\* The call succeeds although projectsDir cannot be listed: the session is
\* listed without context, though an index holds it.
C17_Witness ==
    /\ ActiveReturned
    /\ projRoot = "unlistable"
    /\ Len(ret.val) >= 1
    /\ \E i \in 1..Len(projDirs) :
          /\ Len(projDirs[i].entries) = 1
          /\ projDirs[i].entries[1].SessionID = ret.val[1].SessionID
    /\ BlankContext(ret.val[1])

---------------------------------------------------------------------------
(* GetProjectByPath and HasTasks.                                          *)

\* The loop of GetProjectByPath from the k-th project on.
RECURSIVE FirstWithPath(_, _, _)
FirstWithPath(projects, k, path) ==
    IF k > Len(projects) THEN [err |-> "NotExist", val |-> NoProject]
    ELSE IF projects[k].Path = path THEN [err |-> "nil", val |-> projects[k]]
         ELSE FirstWithPath(projects, k + 1, path)

\* GetProjectByPath(path): the (Project, error) pairs it can return.
GetProjectByPath(path) ==
    {IF r.err # "nil" THEN [err |-> r.err, val |-> NoProject]
     ELSE FirstWithPath(r.val, 1, path) : r \in ListProjects}

\* HasTasks(sessionID) for the j-th name of tasksDir.
HasTasks(j) ==
    LET read == ReadTaskDir(j)
    IN  IF read.err # "nil" THEN FALSE
        ELSE \E e \in read.entries : HasSuffix(e, DotJson)

---------------------------------------------------------------------------
(* The indexer next to the program that writes the two directories         *)
(* (SpecLive).                                                             *)

\* Most session entries the writer leaves in the indexes together.
MaxLiveEntries == 2

\* The project directories the writer fills, and the path of each.
LiveDirNames == <<DirOA, DirOAB>>
LivePaths == <<PathOA, PathOAB>>

\* A variant of AnswerOf: a call repeated with the same argument is
\* answered with what the last call returned.
AnswerFromLastCall(op, arg, fresh) ==
    IF ret.op = op /\ ret.arg = arg
    THEN [err |-> ret.err, val |-> ret.val]
    ELSE fresh

\* What a call of the indexer answers: fresh, the value it computed from
\* the directories it read in this call.  A ProjectIndexer holds the two
\* directory names and nothing else.
AnswerOf(op, arg, fresh) == fresh

\* ret after a call of op: tick flips with each call.
LiveReturned(op, arg, fresh) ==
    [op |-> op, arg |-> arg,
     err |-> AnswerOf(op, arg, fresh).err,
     val |-> AnswerOf(op, arg, fresh).val,
     tick |-> 1 - ret.tick]

\* A fresh <claudeDir>: both directories are there and empty.
InitLive ==
    /\ NoBaseRun
    /\ projRoot = "listable"
    /\ projDirs = [i \in 1..Len(LiveDirNames) |->
                      [name |-> LiveDirNames[i], kind |-> "absent",
                       index |-> "missing", entries |-> << >>, logs |-> {}]]
    /\ taskRoot = "listable"
    /\ taskDirs = <<[name |-> SessionA, kind |-> "absent", files |-> {}]>>
    /\ ret = [op |-> "none", arg |-> 0, err |-> "nil", val |-> 0, tick |-> 0]
    /\ NoInput
    /\ NoServer

\* The number of session entries in all indexes.
RECURSIVE LiveEntryCount(_)
LiveEntryCount(i) ==
    IF i = 0 THEN 0 ELSE Len(projDirs[i].entries) + LiveEntryCount(i - 1)

\* The writer records a session of project i, modified now: the directory
\* and its index are made when they are not there.
WriterAppendSession ==
    /\ LiveEntryCount(Len(projDirs)) < MaxLiveEntries
    /\ \E i \in 1..Len(projDirs) :
          LET k == Len(projDirs[i].entries) + 1
              entry == [SessionID |-> SessionA,
                        Modified |-> LiveEntryCount(Len(projDirs)) + 1,
                        ProjectPath |-> LivePaths[i],
                        Summary |-> SummaryText(i, k),
                        FirstPrompt |-> PromptText(i, k)]
          IN  projDirs' = [projDirs EXCEPT ![i] =
                              [@ EXCEPT !.kind = "dir", !.index = "ok",
                                        !.entries = Append(@, entry)]]
    /\ UNCHANGED <<baseVars, projRoot, taskRoot, taskDirs, ret, input, srvVars>>

\* The writer adds a file to the session's directory of tasksDir.
WriterAddTaskFile ==
    /\ Cardinality(taskDirs[1].files) < MaxTaskFiles
    /\ \E f \in ActiveTaskFiles \ taskDirs[1].files :
          taskDirs' = [taskDirs EXCEPT ![1] =
                          [@ EXCEPT !.kind = "dir", !.files = @ \cup {f}]]
    /\ UNCHANGED <<baseVars, projRoot, projDirs, taskRoot, ret, input, srvVars>>

\* The writer removes a file from it.
WriterRemoveTaskFile ==
    /\ \E f \in taskDirs[1].files :
          taskDirs' = [taskDirs EXCEPT ![1] = [@ EXCEPT !.files = @ \ {f}]]
    /\ UNCHANGED <<baseVars, projRoot, projDirs, taskRoot, ret, input, srvVars>>

LiveListProjects ==
    /\ \E r \in ListProjects : ret' = LiveReturned("ListProjects", 0, r)
    /\ UNCHANGED <<baseVars, fsVars, input, srvVars>>

LiveGetProject ==
    /\ \E i \in 1..Len(projDirs) :
          \E r \in GetProject(i) : ret' = LiveReturned("GetProject", i, r)
    /\ UNCHANGED <<baseVars, fsVars, input, srvVars>>

LiveGetProjectByPath ==
    /\ \E path \in {PathOA, PathOAB, PathVA} :
          \E r \in GetProjectByPath(path) :
              ret' = LiveReturned("GetProjectByPath", path, r)
    /\ UNCHANGED <<baseVars, fsVars, input, srvVars>>

LiveListProjectSummaries ==
    /\ \E r \in ListProjectSummaries :
          ret' = LiveReturned("ListProjectSummaries", 0, r)
    /\ UNCHANGED <<baseVars, fsVars, input, srvVars>>

LiveListProjectGroups ==
    /\ \E r \in ListProjectGroups :
          ret' = LiveReturned("ListProjectGroups", 0, r)
    /\ UNCHANGED <<baseVars, fsVars, input, srvVars>>

LiveHasTasks ==
    /\ \E j \in 1..Len(taskDirs) :
          ret' = LiveReturned("HasTasks", j, [err |-> "nil", val |-> HasTasks(j)])
    /\ UNCHANGED <<baseVars, fsVars, input, srvVars>>

LiveGetTaskCount ==
    /\ \E j \in 1..Len(taskDirs) :
          ret' = LiveReturned("GetTaskCount", j,
                              [err |-> "nil", val |-> GetTaskCount(j)])
    /\ UNCHANGED <<baseVars, fsVars, input, srvVars>>

LiveListActiveTaskLists ==
    /\ ret' = LiveReturned("ListActiveTaskLists", 0, ListActiveTaskLists)
    /\ UNCHANGED <<baseVars, fsVars, input, srvVars>>

NextLive ==
    \/ WriterAppendSession
    \/ WriterAddTaskFile
    \/ WriterRemoveTaskFile
    \/ LiveListProjects
    \/ LiveGetProject
    \/ LiveGetProjectByPath
    \/ LiveListProjectSummaries
    \/ LiveListProjectGroups
    \/ LiveHasTasks
    \/ LiveGetTaskCount
    \/ LiveListActiveTaskLists

SpecLive == InitLive /\ [][NextLive]_vars

---------------------------------------------------------------------------
(* Claims about the indexer next to the writer (SpecLive).                 *)

\* The names of the directories that hold a project now, and the number of
\* sessions of the one called d.
ValidDirNames == {projDirs[i].name : i \in ValidDirs}
SessionsNow(d) ==
    LET i == CHOOSE h \in 1..Len(projDirs) : projDirs[h].name = d
    IN  Len(projDirs[i].entries)

\* The projects (or summaries) ps are those the directory holds now, each
\* with the number of sessions its index holds now.
ProjectsAsNow(ps) ==
    /\ {ps[k].DirName : k \in 1..Len(ps)} = ValidDirNames
    /\ Len(ps) = Cardinality(ValidDirNames)
    /\ \A k \in 1..Len(ps) : ps[k].SessionCount = SessionsNow(ps[k].DirName)

\* The directories whose latest session was recorded under path.
DirsOfPath(path) ==
    {i \in ValidDirs :
        \E k \in 1..Len(projDirs[i].entries) :
            /\ projDirs[i].entries[k].ProjectPath = path
            /\ \A h \in 1..Len(projDirs[i].entries) :
                  projDirs[i].entries[h].Modified
                      <= projDirs[i].entries[k].Modified}

\* The result r of a call states what the two directories hold now.
Reflects(r) ==
    CASE r.op = "ListProjects" -> r.err = "nil" /\ ProjectsAsNow(r.val)
      [] r.op = "ListProjectSummaries" -> r.err = "nil" /\ ProjectsAsNow(r.val)
      [] r.op = "GetProject" ->
            IF r.arg \in ValidDirs
            THEN /\ r.err = "nil"
                 /\ r.val.DirName = projDirs[r.arg].name
                 /\ r.val.SessionCount = Len(projDirs[r.arg].entries)
                 /\ r.val.LastModified =
                       Maximum({projDirs[r.arg].entries[k].Modified :
                                   k \in 1..Len(projDirs[r.arg].entries)})
            ELSE r.err # "nil"
      [] r.op = "GetProjectByPath" ->
            IF DirsOfPath(r.arg) # {}
            THEN /\ r.err = "nil"
                 /\ r.val.Path = r.arg
                 /\ r.val.SessionCount = SessionsNow(r.val.DirName)
            ELSE r.err = "NotExist"
      [] r.op = "ListProjectGroups" ->
            /\ r.err = "nil"
            /\ UNION {{r.val[g].Projects[k].DirName :
                          k \in 1..Len(r.val[g].Projects)} :
                      g \in 1..Len(r.val)} = ValidDirNames
            /\ SumTo([g \in 1..Len(r.val) |-> r.val[g].TotalSessions],
                     Len(r.val)) = LiveEntryCount(Len(projDirs))
      [] r.op = "HasTasks" -> r.val = (LiveTaskFiles(r.arg) # {})
      [] r.op = "GetTaskCount" -> r.val = Cardinality(LiveTaskFiles(r.arg))
      [] r.op = "ListActiveTaskLists" ->
            /\ r.err = "nil"
            /\ {r.val[k].SessionID : k \in 1..Len(r.val)} =
                  {taskDirs[j].name :
                      j \in {h \in 1..Len(taskDirs) : LiveTaskFiles(h) # {}}}
            /\ \A k \in 1..Len(r.val) :
                  /\ \E j \in 1..Len(taskDirs) :
                        /\ taskDirs[j].name = r.val[k].SessionID
                        /\ r.val[k].TaskCount = Cardinality(LiveTaskFiles(j))
                  /\ BlankContext(r.val[k]) <=> IndexedIn(r.val[k].SessionID) = {}
      [] OTHER -> FALSE

\* C18: every operation of the indexer leaves projectsDir and tasksDir as
\* they are, and what it returns is what the two directories hold at the
\* time of the call, whatever earlier calls returned: a change the writer
\* made is in the next call's result.
C18_ReadOnlyAndFresh ==
    [][ret' # ret => (UNCHANGED fsVars /\ Reflects(ret'))]_vars

\* A later call of ListProjectGroups that reports two sessions, each
\* written after the indexer was made.
C18_Witness ==
    /\ ret.op = "ListProjectGroups"
    /\ ret.tick = 0
    /\ Len(ret.val) = 1
    /\ ret.val[1].TotalSessions = MaxLiveEntries
    /\ Len(ret.val[1].Projects) = 2

---------------------------------------------------------------------------
(* Server.Start, Server.Stop and the HTTPServer they drive (SpecServer).   *)

\* The goroutines that call Start and Stop, and the calls each makes.
MaxCallers == 2
MaxCalls == 2
Callers == 1..MaxCallers

\* A variant of CompareAndSwap: the flag is set without being compared.
SwapUnconditionally(flag) == TRUE

\* Whether atomic.CompareAndSwapUint32(&flag, 0, 1) swaps: the flag is 0.
CompareAndSwap(flag) == flag = 0

\* NewServer: nothing started, nothing stopped, both quit channels open,
\* no listener and no http.Server yet.  quitCloses and hQuitCloses count
\* the close() of each quit channel, listens the listeners net.Listen
\* opened; server is 0 while h.server is nil and else the caller whose
\* Start set it; goroutine is the state of the goroutine that runs
\* h.server.Serve; shutdown says whether h.server.Shutdown was called and
\* how it ended; panicked is set when the program died of a panic.  Each
\* caller has the call it made last (op), where it is in it (at) and what
\* the call returned (result).
InitServer ==
    /\ NoBaseRun
    /\ NoFiles
    /\ ret = NoCall
    /\ NoInput
    /\ srv = [started |-> 0, stopped |-> 0, quitCloses |-> 0,
              hStarted |-> 0, hStopped |-> 0, hQuitCloses |-> 0,
              listens |-> 0, server |-> 0, goroutine |-> "none",
              shutdown |-> "no", panicked |-> FALSE]
    /\ pc = [c \in Callers |->
               [op |-> "none", at |-> "idle", calls |-> 0, result |-> "none"]]

\* Caller c moves to label at.
Goto(c, at) == pc' = [pc EXCEPT ![c].at = at]

\* Caller c's call returns result.
Return(c, result) == pc' = [pc EXCEPT ![c].at = "idle", ![c].result = result]

Running(c, at) == ~srv.panicked /\ pc[c].at = at

ServerUnchanged == UNCHANGED <<baseVars, fsVars, ret, input>>

\* Server.Start: the CompareAndSwap of s.started.
StartCAS ==
    /\ \E c \in Callers :
          /\ Running(c, "idle")
          /\ pc[c].calls < MaxCalls
          /\ IF CompareAndSwap(srv.started)
             THEN /\ srv' = [srv EXCEPT !.started = 1]
                  /\ pc' = [pc EXCEPT ![c].op = "Start", ![c].at = "hStart",
                                      ![c].calls = @ + 1, ![c].result = "none"]
             ELSE /\ srv' = srv
                  /\ pc' = [pc EXCEPT ![c].op = "Start", ![c].calls = @ + 1,
                                      ![c].result = "nil"]
    /\ ServerUnchanged

\* HTTPServer.Start: the CompareAndSwap of h.started.
HTTPStartCAS ==
    /\ \E c \in Callers :
          /\ Running(c, "hStart")
          /\ IF CompareAndSwap(srv.hStarted)
             THEN srv' = [srv EXCEPT !.hStarted = 1] /\ Goto(c, "listen")
             ELSE srv' = srv /\ Return(c, "nil")
    /\ ServerUnchanged

\* HTTPServer.Start: net.Listen opens the listener, or fails and Start
\* returns the error.
Listen ==
    /\ \E c \in Callers :
          /\ Running(c, "listen")
          /\ \/ srv' = [srv EXCEPT !.listens = @ + 1] /\ Goto(c, "setServer")
             \/ srv' = srv /\ Return(c, "error")
    /\ ServerUnchanged

\* HTTPServer.Start: h.server is set.
SetServer ==
    /\ \E c \in Callers :
          /\ Running(c, "setServer")
          /\ srv' = [srv EXCEPT !.server = c]
          /\ Goto(c, "serve")
    /\ ServerUnchanged

\* HTTPServer.Start: h.wg.Add(1) and the goroutine that runs
\* h.server.Serve(h.listener) is started; Start returns nil.
Serve ==
    /\ \E c \in Callers :
          /\ Running(c, "serve")
          /\ srv' = [srv EXCEPT !.goroutine = "running"]
          /\ Return(c, "nil")
    /\ ServerUnchanged

\* The goroutine of HTTPServer.Start: h.server.Serve returns once Shutdown
\* was called (at once when it was called before), and h.wg.Done() runs.
ServeReturns ==
    /\ ~srv.panicked
    /\ srv.goroutine = "running"
    /\ srv.shutdown # "no"
    /\ srv' = [srv EXCEPT !.goroutine = "exited"]
    /\ UNCHANGED pc
    /\ ServerUnchanged

\* Server.Stop: the CompareAndSwap of s.stopped.
StopCAS ==
    /\ \E c \in Callers :
          /\ Running(c, "idle")
          /\ pc[c].calls < MaxCalls
          /\ IF CompareAndSwap(srv.stopped)
             THEN /\ srv' = [srv EXCEPT !.stopped = 1]
                  /\ pc' = [pc EXCEPT ![c].op = "Stop", ![c].at = "closeQuit",
                                      ![c].calls = @ + 1, ![c].result = "none"]
             ELSE /\ srv' = srv
                  /\ pc' = [pc EXCEPT ![c].op = "Stop", ![c].calls = @ + 1,
                                      ![c].result = "nil"]
    /\ ServerUnchanged

\* Server.Stop: close(s.quit), a panic when it is closed already.
CloseQuit ==
    /\ \E c \in Callers :
          /\ Running(c, "closeQuit")
          /\ srv' = [srv EXCEPT !.quitCloses = @ + 1,
                                !.panicked = srv.quitCloses > 0]
          /\ Goto(c, "hStop")
    /\ ServerUnchanged

\* HTTPServer.Stop: the CompareAndSwap of h.stopped.
HTTPStopCAS ==
    /\ \E c \in Callers :
          /\ Running(c, "hStop")
          /\ IF CompareAndSwap(srv.hStopped)
             THEN srv' = [srv EXCEPT !.hStopped = 1] /\ Goto(c, "hCloseQuit")
             ELSE srv' = srv /\ Goto(c, "wait")
    /\ ServerUnchanged

\* HTTPServer.Stop: close(h.quit), a panic when it is closed already; the
\* SSE clients are closed and the map is emptied under the lock.
HTTPCloseQuit ==
    /\ \E c \in Callers :
          /\ Running(c, "hCloseQuit")
          /\ srv' = [srv EXCEPT !.hQuitCloses = @ + 1,
                                !.panicked = srv.hQuitCloses > 0]
          /\ Goto(c, "shutdown")
    /\ ServerUnchanged

\* HTTPServer.Stop: h.server.Shutdown.  h.server is read without
\* synchronization with the Start that writes it: the read sees nil when
\* Start has not written it, the server when this caller's own Start
\* wrote it, and nil or the server when another goroutine's did.
\* Shutdown of a nil *http.Server panics.  Otherwise it stops the server
\* from serving and waits for the open connections: it returns nil when
\* they are done within the 5 seconds, and HTTPServer.Stop goes on to
\* h.wg.Wait(); it returns an error when the time runs out, which
\* HTTPServer.Stop returns at once and Server.Stop logs.
Shutdown ==
    /\ \E c \in Callers :
          /\ Running(c, "shutdown")
          /\ \/ /\ srv.server # c
                /\ srv' = [srv EXCEPT !.panicked = TRUE]
                /\ Goto(c, "shutdown")
             \/ /\ srv.server # 0
                /\ srv' = [srv EXCEPT !.shutdown = "done"]
                /\ Goto(c, "hWait")
             \/ /\ srv.server # 0
                /\ srv' = [srv EXCEPT !.shutdown = "timeout"]
                /\ Goto(c, "wait")
    /\ ServerUnchanged

\* HTTPServer.Stop: h.wg.Wait() returns when no serving goroutine is
\* running, and Stop returns nil.
HTTPWait ==
    /\ \E c \in Callers :
          /\ Running(c, "hWait")
          /\ srv.goroutine # "running"
          /\ srv' = srv
          /\ Goto(c, "wait")
    /\ ServerUnchanged

\* Server.Stop: s.wg.Wait() and return nil.
Wait ==
    /\ \E c \in Callers :
          /\ Running(c, "wait")
          /\ srv' = srv
          /\ Return(c, "nil")
    /\ ServerUnchanged

NextServer ==
    \/ StartCAS
    \/ HTTPStartCAS
    \/ Listen
    \/ SetServer
    \/ Serve
    \/ ServeReturns
    \/ StopCAS
    \/ CloseQuit
    \/ HTTPStopCAS
    \/ HTTPCloseQuit
    \/ Shutdown
    \/ HTTPWait
    \/ Wait

SpecServer == InitServer /\ [][NextServer]_vars

---------------------------------------------------------------------------
(* Claims about Start and Stop (SpecServer).                               *)

\* The listener is opened at most once and each quit channel is closed at
\* most once.
OpenedAndClosedOnce ==
    /\ srv.listens <= 1
    /\ srv.quitCloses <= 1
    /\ srv.hQuitCloses <= 1

\* Caller c begins a call of Start after another call of Start began, or
\* a call of Stop after another call of Stop began, and returns from it.
LateStart(c) ==
    /\ pc[c].at = "idle"
    /\ pc'[c].calls = pc[c].calls + 1
    /\ srv.started = 1
    /\ srv'.stopped = srv.stopped
LateStop(c) ==
    /\ pc[c].at = "idle"
    /\ pc'[c].calls = pc[c].calls + 1
    /\ srv.stopped = 1
    /\ srv'.started = srv.started

\* C19: under any interleaving of calls of Server.Start and Server.Stop
\* the listener is opened at most once and the quit channels of Server and
\* HTTPServer are closed at most once each, and every call of Start after
\* the first, and of Stop after the first, returns nil at once and changes
\* nothing.
C19_StartStopIdempotent ==
    [][/\ OpenedAndClosedOnce'
       /\ \A c \in Callers :
             (LateStart(c) \/ LateStop(c)) =>
                 /\ srv' = srv
                 /\ pc'[c].at = "idle"
                 /\ pc'[c].result = "nil"]_vars

\* Started and stopped once, with a second Start and a second Stop that
\* returned nil.
C19_Witness ==
    /\ srv.listens = 1
    /\ srv.quitCloses = 1
    /\ srv.hQuitCloses = 1
    /\ ~srv.panicked
    /\ \A c \in Callers :
          /\ pc[c].at = "idle"
          /\ pc[c].calls = 2
          /\ pc[c].result = "nil"

---------------------------------------------------------------------------
(* A further claim about computeBaseRepos (SpecBase).                      *)

\* C20: a candidate C becomes the BaseRepo of a project only when the
\* project's name is C, then "-", then a suffix that is not empty: a
\* project named C followed by a bare "-" is not given BaseRepo C.
C20_NonEmptySuffix ==
    phase = "done" =>
        \A i \in 1..Len(baseOut) :
            baseOut[i].BaseRepo # baseOut[i].Name =>
                /\ HasPrefix(baseOut[i].Name, baseOut[i].BaseRepo \o Dash)
                /\ Len(baseOut[i].Name) > Len(baseOut[i].BaseRepo) + 1

---------------------------------------------------------------------------
(* Further claims about the groups (Spec, SpecBase).                       *)

\* C21: in the result of ListProjectGroups every project with an empty
\* organization has BaseRepo equal to its own name and is the only member
\* of its group, whatever other projects there are.
C21_NoOrgSingleton ==
    GroupsReturned =>
        \A g \in 1..Len(ret.val) :
            \A k \in 1..Len(ret.val[g].Projects) :
                ret.val[g].Projects[k].Org = EmptyStr =>
                    /\ ret.val[g].Projects[k].BaseRepo =
                          ret.val[g].Projects[k].Name
                    /\ Len(ret.val[g].Projects) = 1

---------------------------------------------------------------------------
(* NewServer: the directories the task store and the project indexer are   *)
(* made with (SpecConfig).                                                 *)

DotDot == <<".", ".">>
DotClaude == <<".", "c", "l", "a", "u", "d", "e">>
TasksName == <<"t", "a", "s", "k", "s">>
ProjectsName == <<"p", "r", "o", "j", "e", "c", "t", "s">>

\* filepath.Clean's pass over the components of a path: empty ones and
\* "." are dropped, ".." removes the component before it (and is dropped
\* at the root, kept at the start of a relative path).
RECURSIVE CleanParts(_, _, _)
CleanParts(parts, rooted, out) ==
    IF parts = << >> THEN out
    ELSE LET p == Head(parts)
             rest == Tail(parts)
         IN  IF p = EmptyStr \/ p = <<".">>
             THEN CleanParts(rest, rooted, out)
             ELSE IF p = DotDot
             THEN IF out # << >> /\ out[Len(out)] # DotDot
                  THEN CleanParts(rest, rooted, SubSeq(out, 1, Len(out) - 1))
                  ELSE IF rooted THEN CleanParts(rest, rooted, out)
                       ELSE CleanParts(rest, rooted, Append(out, p))
             ELSE CleanParts(rest, rooted, Append(out, p))

\* filepath.Clean(path) on a slash-separated path.
FilepathClean(path) ==
    IF path = EmptyStr THEN <<".">>
    ELSE LET rooted == path[1] = "/"
             joined == JoinSlash(CleanParts(SplitOn(path, "/"), rooted, << >>))
         IN  IF rooted THEN Slash \o joined
             ELSE IF joined = EmptyStr THEN <<".">> ELSE joined

\* filepath.Join(elem...): the elements from the first non-empty one on,
\* joined by "/" and cleaned; "" when every element is empty.
FilepathJoin(elem) ==
    IF \A i \in 1..Len(elem) : elem[i] = EmptyStr THEN EmptyStr
    ELSE LET first == CHOOSE i \in 1..Len(elem) :
                          /\ elem[i] # EmptyStr
                          /\ \A j \in 1..(i - 1) : elem[j] = EmptyStr
         IN  FilepathClean(JoinSlash(SubSeq(elem, first, Len(elem))))

\* os.UserHomeDir() where $HOME is home: an error when it is not set.
UserHomeDir(home) ==
    IF home = EmptyStr THEN [err |-> "HomeNotDefined", val |-> EmptyStr]
    ELSE [err |-> "nil", val |-> home]

\* cfg.Validate()
Validate(cfg) == IF cfg.ListenAddr = EmptyStr THEN "EmptyListenAddr" ELSE "nil"

\* cfg.ResolveTasksDir()
ResolveTasksDir(cfg, home) ==
    IF cfg.TasksDir # EmptyStr THEN [err |-> "nil", val |-> cfg.TasksDir]
    ELSE LET h == UserHomeDir(home)
         IN  IF h.err # "nil" THEN [err |-> h.err, val |-> EmptyStr]
             ELSE [err |-> "nil",
                   val |-> FilepathJoin(<<h.val, DotClaude, TasksName>>)]

\* cfg.ResolveClaudeDir()
ResolveClaudeDir(cfg, home) ==
    LET h == UserHomeDir(home)
    IN  IF h.err # "nil" THEN [err |-> h.err, val |-> EmptyStr]
        ELSE [err |-> "nil", val |-> FilepathJoin(<<h.val, DotClaude>>)]

\* NewProjectIndexer(claudeDir)
NewProjectIndexer(claudeDir, home) ==
    LET base == IF claudeDir = EmptyStr
                THEN FilepathJoin(<<UserHomeDir(home).val, DotClaude>>)
                ELSE claudeDir
    IN  [projectsDir |-> FilepathJoin(<<base, ProjectsName>>),
         tasksDir |-> FilepathJoin(<<base, TasksName>>)]

\* NewHTTPServer(httpCfg, taskStore, log): the embedded templates parse.
NewHTTPServer(httpCfg, taskStore, home) ==
    [cfg |-> httpCfg, taskStore |-> taskStore,
     projectIndexer |-> NewProjectIndexer(httpCfg.ClaudeDir, home)]

NoServerMade == [httpServer |-> << >>, taskStore |-> << >>]

\* NewServer(cfg, log) where $HOME is home and storeOk says whether
\* claudeagent.NewFileTaskStore can make its store: the (*Server, error)
\* it returns. The store lists the tasks of the directory it was made with.
NewServer(cfg, home, storeOk) ==
    IF Validate(cfg) # "nil"
    THEN [err |-> Validate(cfg), val |-> NoServerMade]
    ELSE LET claudeDir == ResolveClaudeDir(cfg, home)
             tasksDir == ResolveTasksDir(cfg, home)
         IN  IF claudeDir.err # "nil"
             THEN [err |-> claudeDir.err, val |-> NoServerMade]
             ELSE IF tasksDir.err # "nil"
             THEN [err |-> tasksDir.err, val |-> NoServerMade]
             ELSE IF ~storeOk
             THEN [err |-> "TaskStore", val |-> NoServerMade]
             ELSE LET taskStore == [dir |-> tasksDir.val]
                      httpCfg == [ListenAddr |-> cfg.ListenAddr,
                                  ClaudeDir |-> claudeDir.val,
                                  TasksDir |-> tasksDir.val,
                                  DebugHTTP |-> cfg.DebugHTTP]
                  IN  [err |-> "nil",
                       val |-> [httpServer |->
                                   NewHTTPServer(httpCfg, taskStore, home),
                                taskStore |-> taskStore]]

\* The configurations and environments NewServer is called with.
AddrDefault == <<":", "8", "0", "8", "0">>
HomeH == <<"/", "h">>
HomeValues == {EmptyStr, HomeH, HomeH \o Slash, Slash, <<"h">>}
DefaultTasksDir == FilepathJoin(<<HomeH, DotClaude, TasksName>>)
TasksDirValues ==
    {EmptyStr, <<"/", "t">>, TasksName, DefaultTasksDir,
     DefaultTasksDir \o Slash,
     JoinSlash(<<HomeH, DotClaude, DotDot, DotClaude, TasksName>>),
     FilepathJoin(<<HomeH, DotClaude>>)}

ConfigInputs ==
    [cfg : [ListenAddr : {EmptyStr, AddrDefault},
            TasksDir : TasksDirValues,
            DebugHTTP : BOOLEAN],
     home : HomeValues,
     storeOk : BOOLEAN]

InitConfig ==
    /\ NoBaseRun
    /\ NoFiles
    /\ ret = NoCall
    /\ input \in ConfigInputs
    /\ NoServer

\* server, err := NewServer(cfg, log)
CallNewServer ==
    /\ ret = NoCall
    /\ LET r == NewServer(input.cfg, input.home, input.storeOk)
       IN  ret' = [op |-> "NewServer", arg |-> input.cfg,
                   err |-> r.err, val |-> r.val]
    /\ UNCHANGED <<baseVars, fsVars, input, srvVars>>

NextConfig ==
    \/ CallNewServer
    \/ Discard

SpecConfig == InitConfig /\ [][NextConfig]_vars

---------------------------------------------------------------------------
(* Claims about NewServer (SpecConfig).                                    *)

ServerMade == ret.op = "NewServer" /\ ret.err = "nil"

\* Two paths that name one directory whatever the file system holds: they
\* are the same once cleaned.
SameDirectory(a, b) == FilepathClean(a) = FilepathClean(b)

\* C22: for every configuration NewServer accepts, one with an explicit
\* tasks directory included, the directory the project indexer counts task
\* files in is the directory the task store lists tasks from.
C22_OneTasksDirectory ==
    ServerMade =>
        SameDirectory(ret.val.httpServer.projectIndexer.tasksDir,
                      ret.val.taskStore.dir)

---------------------------------------------------------------------------
(* Further claims about Start and Stop (SpecServer).                       *)

\* A call of Start has returned nil to caller c and is the last call c
\* made.
StartReturnedNil(c) ==
    /\ pc[c].op = "Start"
    /\ pc[c].at = "idle"
    /\ pc[c].result = "nil"

\* No call of Stop was made.
StopNotCalled == srv.stopped = 0

\* C23: whenever a call of Server.Start has returned nil and Stop has not
\* been called, the listener is open and the serving goroutine is running,
\* also when the Start follows a Start that failed to bind.
C23_StartedMeansServing ==
    ((\E c \in Callers : StartReturnedNil(c)) /\ StopNotCalled) =>
        /\ srv.listens = 1
        /\ srv.goroutine = "running"

\* C24: Server.Stop completes without a fault in every lifecycle state
\* (never started, Start failed to bind, running): no call of it panics on
\* a nil http.Server or on the close of a closed channel.
C24_StopNeverFaults == ~srv.panicked

\* Caller c returns from a call of Stop in this step.
StopReturns(c) ==
    /\ pc'[c].op = "Stop"
    /\ pc'[c].at = "idle"
    /\ pc'[c] # pc[c]

\* Both quit channels are closed, h.server.Shutdown has completed and the
\* serving goroutine is not running.
ShutdownComplete ==
    /\ srv.quitCloses = 1
    /\ srv.hQuitCloses = 1
    /\ srv.shutdown = "done"
    /\ srv.goroutine # "running"

\* C25: when a call of Server.Stop returns, to whichever caller, shutdown
\* is complete: the quit channel is closed, the HTTP server has been shut
\* down and the serving goroutine has exited.
C25_StopReturnsWhenDone ==
    [][\A c \in Callers : StopReturns(c) => ShutdownComplete']_vars

---------------------------------------------------------------------------
(* The SSE clients of HTTPServer: addSSEClient, removeSSEClient,           *)
(* broadcastSSE and the part of Stop that closes them (SpecSSE).           *)

\* The goroutines that call the four functions, the calls they make in
\* all, the client channels there are and the capacity of a channel's
\* buffer.
MaxProcs == 2
MaxSSECalls == 5
MaxChans == 2
ChanCap == 1
Procs == 1..MaxProcs
Chans == 1..MaxChans
ListIDs == {"l1", "l2"}

\* A variant of CanRLock: a reader does not wait for the writer.
CanRLockAlways(writer) == TRUE

\* sseClientsMu.RLock() returns when no goroutine holds the write lock.
CanRLock(writer) == writer = 0

\* sseClientsMu.Lock() returns when no goroutine holds the lock at all.
CanLock(writer, readers) == writer = 0 /\ readers = {}

\* The elements of a slice.
Elements(s) == {s[k] : k \in 1..Len(s)}

\* append(clients[:i], clients[i+1:]...) for the first i with
\* clients[i] = ch, and clients itself when there is none.
WithoutFirst(clients, ch) ==
    IF ch \notin Elements(clients) THEN clients
    ELSE LET i == CHOOSE k \in 1..Len(clients) :
                      /\ clients[k] = ch
                      /\ \A j \in 1..(k - 1) : clients[j] # ch
         IN  SubSeq(clients, 1, i - 1) \o SubSeq(clients, i + 1, Len(clients))

\* How many times ch stands in the lists of the map m.
RECURSIVE CountIn(_, _)
CountIn(s, ch) ==
    IF s = << >> THEN 0
    ELSE (IF Head(s) = ch THEN 1 ELSE 0) + CountIn(Tail(s), ch)
RECURSIVE ClosesOf(_, _, _)
ClosesOf(m, ids, ch) ==
    IF ids = {} THEN 0
    ELSE LET id == CHOOSE x \in ids : TRUE
         IN  CountIn(m[id], ch) + ClosesOf(m, ids \ {id}, ch)

NoSSECall ==
    [op |-> "none", at |-> "idle", list |-> "", ch |-> 0, snap |-> << >>,
     i |-> 0, got |-> {}, full |-> {}]

\* NewHTTPServer: an empty map of clients, the lock free, h.quit open.
\* chans[ch] holds how many messages wait in the buffer of ch and how many
\* times ch was closed; made are the channels a handler has made and
\* handed to addSSEClient; writer is the goroutine that holds the write
\* lock (0: none) and readers those that hold the read lock.
InitSSE ==
    /\ NoBaseRun
    /\ NoFiles
    /\ ret = NoCall
    /\ NoInput
    /\ srv = [clients |-> [id \in ListIDs |-> << >>],
              chans |-> [ch \in Chans |-> [buf |-> 0, closes |-> 0]],
              made |-> {}, writer |-> 0, readers |-> {},
              hStopped |-> 0, hQuitCloses |-> 0, calls |-> 0,
              panicked |-> FALSE]
    /\ pc = [p \in Procs |-> NoSSECall]

SSERunning(p, at) == ~srv.panicked /\ pc[p].at = at

CanCall(p) == SSERunning(p, "idle") /\ srv.calls < MaxSSECalls

\* addSSEClient(listID, ch) with a channel the caller has just made:
\* h.sseClientsMu.Lock().
AddSSEClientLock ==
    /\ \E p \in Procs, id \in ListIDs, ch \in Chans :
          /\ CanCall(p)
          /\ ch \notin srv.made
          /\ CanLock(srv.writer, srv.readers)
          /\ srv' = [srv EXCEPT !.writer = p, !.made = @ \cup {ch},
                                !.calls = @ + 1]
          /\ pc' = [pc EXCEPT ![p] = [NoSSECall EXCEPT !.op = "addSSEClient",
                                         !.at = "append", !.list = id,
                                         !.ch = ch]]
    /\ ServerUnchanged

\* addSSEClient: the append and the deferred Unlock.
AddSSEClientAppend ==
    /\ \E p \in Procs :
          /\ SSERunning(p, "append")
          /\ srv' = [srv EXCEPT !.clients[pc[p].list] = Append(@, pc[p].ch),
                                !.writer = 0]
          /\ pc' = [pc EXCEPT ![p] = NoSSECall]
    /\ ServerUnchanged

\* removeSSEClient(listID, ch) with a channel that was registered:
\* h.sseClientsMu.Lock().
RemoveSSEClientLock ==
    /\ \E p \in Procs, id \in ListIDs, ch \in srv.made :
          /\ CanCall(p)
          /\ CanLock(srv.writer, srv.readers)
          /\ srv' = [srv EXCEPT !.writer = p, !.calls = @ + 1]
          /\ pc' = [pc EXCEPT ![p] = [NoSSECall EXCEPT
                                         !.op = "removeSSEClient",
                                         !.at = "remove", !.list = id,
                                         !.ch = ch]]
    /\ ServerUnchanged

\* removeSSEClient: the loop and the deferred Unlock.
RemoveSSEClientRemove ==
    /\ \E p \in Procs :
          /\ SSERunning(p, "remove")
          /\ srv' = [srv EXCEPT
                        !.clients[pc[p].list] = WithoutFirst(@, pc[p].ch),
                        !.writer = 0]
          /\ pc' = [pc EXCEPT ![p] = NoSSECall]
    /\ ServerUnchanged

\* broadcastSSE(listID, eventType, data): h.sseClientsMu.RLock() and the
\* range expression h.sseClients[listID], evaluated once.
BroadcastSSERLock ==
    /\ \E p \in Procs, id \in ListIDs :
          /\ CanCall(p)
          /\ CanRLock(srv.writer)
          /\ srv' = [srv EXCEPT !.readers = @ \cup {p}, !.calls = @ + 1]
          /\ pc' = [pc EXCEPT ![p] = [NoSSECall EXCEPT
                                         !.op = "broadcastSSE",
                                         !.at = "send", !.list = id,
                                         !.snap = srv.clients[id], !.i = 1]]
    /\ ServerUnchanged

\* broadcastSSE: one turn of the loop, select { case ch <- msg: default: }.
\* A send on a closed channel panics; a channel with room takes the
\* message; a full one is skipped.
BroadcastSSESend ==
    /\ \E p \in Procs :
          /\ SSERunning(p, "send")
          /\ pc[p].i <= Len(pc[p].snap)
          /\ LET ch == pc[p].snap[pc[p].i]
             IN  IF srv.chans[ch].closes > 0
                 THEN /\ srv' = [srv EXCEPT !.panicked = TRUE]
                      /\ pc' = pc
                 ELSE IF srv.chans[ch].buf < ChanCap
                 THEN /\ srv' = [srv EXCEPT !.chans[ch].buf = @ + 1]
                      /\ pc' = [pc EXCEPT ![p].i = @ + 1,
                                          ![p].got = @ \cup {ch}]
                 ELSE /\ srv' = srv
                      /\ pc' = [pc EXCEPT ![p].i = @ + 1,
                                          ![p].full = @ \cup {ch}]
    /\ ServerUnchanged

\* broadcastSSE: the loop is over; the deferred RUnlock.
BroadcastSSERUnlock ==
    /\ \E p \in Procs :
          /\ SSERunning(p, "send")
          /\ pc[p].i > Len(pc[p].snap)
          /\ srv' = [srv EXCEPT !.readers = @ \ {p}]
          /\ pc' = [pc EXCEPT ![p] = NoSSECall]
    /\ ServerUnchanged

\* HTTPServer.Stop: the CompareAndSwap of h.stopped and close(h.quit).
SSEStopCloseQuit ==
    /\ \E p \in Procs :
          /\ CanCall(p)
          /\ IF CompareAndSwap(srv.hStopped)
             THEN /\ srv' = [srv EXCEPT !.hStopped = 1,
                                        !.hQuitCloses = @ + 1,
                                        !.calls = @ + 1]
                  /\ pc' = [pc EXCEPT ![p] = [NoSSECall EXCEPT
                                                 !.op = "Stop",
                                                 !.at = "stopLock"]]
             ELSE /\ srv' = [srv EXCEPT !.calls = @ + 1]
                  /\ pc' = pc
    /\ ServerUnchanged

\* HTTPServer.Stop: h.sseClientsMu.Lock().
SSEStopLock ==
    /\ \E p \in Procs :
          /\ SSERunning(p, "stopLock")
          /\ CanLock(srv.writer, srv.readers)
          /\ srv' = [srv EXCEPT !.writer = p]
          /\ pc' = [pc EXCEPT ![p].at = "closeClients"]
    /\ ServerUnchanged

\* HTTPServer.Stop: every channel of every list is closed (the close of a
\* closed channel panics), the map is replaced by an empty one and the
\* lock is released.
SSEStopCloseClients ==
    /\ \E p \in Procs :
          /\ SSERunning(p, "closeClients")
          /\ LET closed == [ch \in Chans |->
                              [srv.chans[ch] EXCEPT
                                  !.closes = @ + ClosesOf(srv.clients,
                                                          ListIDs, ch)]]
             IN  srv' = [srv EXCEPT
                            !.chans = closed,
                            !.clients = [id \in ListIDs |-> << >>],
                            !.writer = 0,
                            !.panicked = \E ch \in Chans : closed[ch].closes > 1]
          /\ pc' = [pc EXCEPT ![p] = NoSSECall]
    /\ ServerUnchanged

\* The handler that owns ch takes a message out of its buffer.
ClientReceives ==
    /\ ~srv.panicked
    /\ \E ch \in Chans :
          /\ srv.chans[ch].buf > 0
          /\ srv' = [srv EXCEPT !.chans[ch].buf = @ - 1]
    /\ UNCHANGED pc
    /\ ServerUnchanged

NextSSE ==
    \/ AddSSEClientLock
    \/ AddSSEClientAppend
    \/ RemoveSSEClientLock
    \/ RemoveSSEClientRemove
    \/ BroadcastSSERLock
    \/ BroadcastSSESend
    \/ BroadcastSSERUnlock
    \/ SSEStopCloseQuit
    \/ SSEStopLock
    \/ SSEStopCloseClients
    \/ ClientReceives

SpecSSE == InitSSE /\ [][NextSSE]_vars

---------------------------------------------------------------------------
(* Claims about the SSE clients (SpecSSE).                                 *)

\* Caller p of broadcastSSE is through its loop.
BroadcastDone(p) ==
    /\ pc[p].op = "broadcastSSE"
    /\ pc[p].i > Len(pc[p].snap)

---------------------------------------------------------------------------
(* handleSSE: one stream handler, the subscription that feeds it, its      *)
(* client and a call of HTTPServer.Stop (SpecStream, SpecStreamFair).      *)

\* The events the subscription delivers and the capacity of its channel.
MaxEvents == 3
EventCap == 1

\* A variant of QuitObserved: the handler does not look at h.quit.
QuitIgnored(closed) == FALSE

\* Whether the case <-h.quit of the handler's select is ready.
QuitObserved(closed) == closed

\* A request has reached handleSSE: nothing written, the request's context
\* live, h.quit open, no subscription yet, Stop not called.  events is
\* the content of the subscription's channel, sent the number of events
\* the subscription has put into it, written what the handler wrote to the
\* response, in order.
InitStream ==
    /\ NoBaseRun
    /\ NoFiles
    /\ ret = NoCall
    /\ NoInput
    /\ srv = [ctxDone |-> FALSE, quitClosed |-> FALSE, subscribed |-> FALSE,
              events |-> << >>, eventsClosed |-> FALSE, sent |-> 0,
              written |-> << >>, observed |-> "none"]
    /\ pc = [handler |-> "subscribe", stop |-> "idle"]

\* handleSSE up to h.taskStore.Subscribe: the subscription is made, or
\* Subscribe fails and the handler answers 500 and returns.
Subscribe ==
    /\ pc.handler = "subscribe"
    /\ \/ /\ srv' = [srv EXCEPT !.subscribed = TRUE]
          /\ pc' = [pc EXCEPT !.handler = "ping"]
       \/ /\ srv' = [srv EXCEPT !.written = Append(@, "error")]
          /\ pc' = [pc EXCEPT !.handler = "returned"]
    /\ ServerUnchanged

\* handleSSE: the initial ping is written and flushed.
WritePing ==
    /\ pc.handler = "ping"
    /\ srv' = [srv EXCEPT !.written = Append(@, "ping")]
    /\ pc' = [pc EXCEPT !.handler = "select"]
    /\ ServerUnchanged

\* handleSSE's select: case <-ctx.Done(): return.
SelectCtxDone ==
    /\ pc.handler = "select"
    /\ srv.ctxDone
    /\ srv' = [srv EXCEPT !.observed = "ctx"]
    /\ pc' = [pc EXCEPT !.handler = "returned"]
    /\ ServerUnchanged

\* handleSSE's select: case <-h.quit: return.
SelectQuit ==
    /\ pc.handler = "select"
    /\ QuitObserved(srv.quitClosed)
    /\ srv' = [srv EXCEPT !.observed = "quit"]
    /\ pc' = [pc EXCEPT !.handler = "returned"]
    /\ ServerUnchanged

\* handleSSE's select: case event, ok := <-events with an event in the
\* channel: it is written as a task event and flushed.
SelectEvent ==
    /\ pc.handler = "select"
    /\ srv.events # << >>
    /\ srv' = [srv EXCEPT !.events = Tail(@),
                          !.written = Append(@, Head(srv.events))]
    /\ pc' = pc
    /\ ServerUnchanged

\* handleSSE's select: case event, ok := <-events with the channel closed
\* and empty: !ok, return.
SelectEventsClosed ==
    /\ pc.handler = "select"
    /\ srv.events = << >>
    /\ srv.eventsClosed
    /\ srv' = [srv EXCEPT !.observed = "closed"]
    /\ pc' = [pc EXCEPT !.handler = "returned"]
    /\ ServerUnchanged

\* The subscription puts its next event into the channel.
SubscriptionSends ==
    /\ srv.subscribed
    /\ ~srv.eventsClosed
    /\ srv.sent < MaxEvents
    /\ Len(srv.events) < EventCap
    /\ srv' = [srv EXCEPT !.events = Append(@, srv.sent + 1), !.sent = @ + 1]
    /\ pc' = pc
    /\ ServerUnchanged

\* The subscription closes the channel.
SubscriptionCloses ==
    /\ srv.subscribed
    /\ ~srv.eventsClosed
    /\ srv' = [srv EXCEPT !.eventsClosed = TRUE]
    /\ pc' = pc
    /\ ServerUnchanged

\* The client goes away: the request's context is cancelled.
ClientCancels ==
    /\ ~srv.ctxDone
    /\ pc.handler # "returned"
    /\ srv' = [srv EXCEPT !.ctxDone = TRUE]
    /\ pc' = pc
    /\ ServerUnchanged

\* HTTPServer.Stop up to close(h.quit).
StreamStopCloseQuit ==
    /\ pc.stop = "idle"
    /\ srv' = [srv EXCEPT !.quitClosed = TRUE]
    /\ pc' = [pc EXCEPT !.stop = "shutdown"]
    /\ ServerUnchanged

\* HTTPServer.Stop: h.server.Shutdown returns when the handler has
\* returned, or when its 5 seconds have run out.
StreamShutdown ==
    /\ pc.stop = "shutdown"
    /\ \/ pc.handler = "returned" /\ pc' = [pc EXCEPT !.stop = "returned"]
       \/ pc.handler # "returned" /\ pc' = [pc EXCEPT !.stop = "timeout"]
    /\ srv' = srv
    /\ ServerUnchanged

HandlerSteps ==
    \/ Subscribe
    \/ WritePing
    \/ SelectCtxDone
    \/ SelectQuit
    \/ SelectEvent
    \/ SelectEventsClosed

NextStream ==
    \/ HandlerSteps
    \/ SubscriptionSends
    \/ SubscriptionCloses
    \/ ClientCancels
    \/ StreamStopCloseQuit
    \/ StreamShutdown

SpecStream == InitStream /\ [][NextStream]_vars

\* The handler's goroutine and the one that called Stop are scheduled
\* while they can take a step; the subscription and the client owe
\* nothing.
SpecStreamFair ==
    /\ SpecStream
    /\ WF_vars(HandlerSteps)
    /\ WF_vars(StreamShutdown)

---------------------------------------------------------------------------
(* Claims about handleSSE (SpecStreamFair).                                *)

\* The events 1, ..., n in the order the subscription sent them.
FirstEvents(n) == [k \in 1..n |-> k]

\* What was written is the ping followed by the events received so far,
\* in the order of the subscription.
PingThenEventsInOrder ==
    srv.subscribed /\ srv.written # << >> =>
        /\ srv.written[1] = "ping"
        /\ Tail(srv.written) = FirstEvents(Len(srv.written) - 1)
        /\ Len(srv.written) - 1 + Len(srv.events) = srv.sent

\* One of the three reasons to end holds for the subscribed handler.
MustEnd ==
    /\ srv.subscribed
    /\ srv.ctxDone \/ srv.quitClosed \/ (srv.eventsClosed /\ srv.events = << >>)

---------------------------------------------------------------------------
(* handleSessionsPartial: the window of sessions it renders (SpecPage).    *)

\* The sessions a project has and the largest offset and limit asked for.
MaxSessions == 3
MaxParam == 4

\* start := offset, capped at totalSessions.
WindowStart(offset, totalSessions) ==
    IF offset > totalSessions THEN totalSessions ELSE offset

\* end := start + limit, capped at totalSessions.
WindowEnd(start, limit, totalSessions) ==
    IF start + limit > totalSessions THEN totalSessions ELSE start + limit

\* The indexes project.Sessions[i] of the loop for i := start; i < end.
WindowIndexes(start, end) == {i \in start..(end - 1) : TRUE}

NoPage ==
    [start |-> 0, end |-> 0, indexes |-> {}, Sessions |-> 0, HasMore |-> FALSE,
     NextOffset |-> 0, TotalCount |-> 0]

\* handleSessionsPartial with the parsed offset and limit for a project of
\* totalSessions sessions (found says whether GetProject finds it): 404
\* when it does not; a panic when make is given a negative capacity or
\* project.Sessions is indexed outside 0..totalSessions-1; else the data
\* handed to the template.
handleSessionsPartial(offset, limit, found, totalSessions) ==
    IF ~found THEN [err |-> "NotFound", val |-> NoPage]
    ELSE LET start == WindowStart(offset, totalSessions)
             end == WindowEnd(start, limit, totalSessions)
             indexes == WindowIndexes(start, end)
             page == [start |-> start, end |-> end, indexes |-> indexes,
                      Sessions |-> Cardinality(indexes),
                      HasMore |-> end < totalSessions,
                      NextOffset |-> end, TotalCount |-> totalSessions]
         IN  IF end - start < 0
             THEN [err |-> "PanicMakeslice",
                   val |-> [page EXCEPT !.indexes = {}, !.Sessions = 0]]
             ELSE IF \E i \in indexes : i < 0 \/ i >= totalSessions
             THEN [err |-> "PanicIndex", val |-> page]
             ELSE [err |-> "nil", val |-> page]

PageInputs ==
    [offset : (0 - MaxParam)..MaxParam,
     limit : (0 - MaxParam)..MaxParam,
     found : BOOLEAN,
     totalSessions : 0..MaxSessions]

InitPage ==
    /\ NoBaseRun
    /\ NoFiles
    /\ ret = NoCall
    /\ input \in PageInputs
    /\ NoServer

\* GET of the sessions partial with ?offset=&limit=.
CallHandleSessionsPartial ==
    /\ ret = NoCall
    /\ LET r == handleSessionsPartial(input.offset, input.limit, input.found,
                                      input.totalSessions)
       IN  ret' = [op |-> "handleSessionsPartial", arg |-> input,
                   err |-> r.err, val |-> r.val]
    /\ UNCHANGED <<baseVars, fsVars, input, srvVars>>

NextPage ==
    \/ CallHandleSessionsPartial
    \/ Discard

SpecPage == InitPage /\ [][NextPage]_vars

---------------------------------------------------------------------------
(* Claims about handleSessionsPartial (SpecPage).                          *)

\* C28: for every integer offset and limit, negative ones included, and
\* every session count n of a project that is found, the window satisfies
\* 0 <= start <= end <= n, the handler indexes the session list inside
\* 0..n-1 only and does not fail, HasMore is true exactly when end < n,
\* and NextOffset = end.
C28_WindowInBounds ==
    (ret.op = "handleSessionsPartial" /\ ret.err # "NotFound") =>
        LET n == ret.arg.totalSessions
        IN  /\ 0 <= ret.val.start
            /\ ret.val.start <= ret.val.end
            /\ ret.val.end <= n
            /\ ret.err = "nil"
            /\ \A i \in ret.val.indexes : 0 <= i /\ i < n
            /\ ret.val.HasMore = (ret.val.end < n)
            /\ ret.val.NextOffset = ret.val.end

---------------------------------------------------------------------------
(* Further claims about ListProjectGroups and computeBaseRepos             *)
(* (Spec, SpecBase).                                                       *)

\* C29: ListProjectGroups is deterministic: a call against the same,
\* unchanged file system returns the same groups in the same order as the
\* call that returned, also when groups have the same LastModified.
C29_GroupsDeterministic ==
    GroupsReturned =>
        \A r \in ListProjectGroups : r.err = "nil" /\ r.val = ret.val

\* C30: the base of a group is a member of it: when a project of an
\* organization has BaseRepo b, the project named b of that organization
\* has BaseRepo b too, also in chains such as a, a-b, a-b-c.
C30_BaseIsMember ==
    phase = "done" =>
        \A i, j \in 1..Len(baseOut) :
            (/\ baseOut[i].Org # EmptyStr
             /\ baseOut[j].Org = baseOut[i].Org
             /\ baseOut[j].Name = baseOut[i].BaseRepo) =>
                baseOut[j].BaseRepo = baseOut[j].Name

===========================================================================
